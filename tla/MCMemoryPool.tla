---------------------------- MODULE MCMemoryPool ----------------------------
EXTENDS MemoryPool

\* Code that may not be written, thread-local data at the begin of the heap that
\* do not fill their page, and a stack that begins inside a page.
SmallSections ==
  {[start |-> 0, size |-> 1, rights |-> {"r", "x"}],
   [start |-> 2, size |-> 1, rights |-> {"r", "w"}],
   [start |-> 9, size |-> 2, rights |-> {"r", "w"}]}

ReadWrite == {{"r", "w"}}

OneValue == {<<1, 2, 3>>}
=============================================================================
