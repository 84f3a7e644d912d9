-------------------------- MODULE NativeExecutionProofs --------------------------
(***************************************************************************)
(* Theorems on whole executions.  The first part is about the thread: what *)
(* is loaded, the prologue and all native instructions that are            *)
(* recognised, one after the other, lose no data dependence on a byte of   *)
(* the input stream.  The second part is about the loader: it keeps its    *)
(* tables sound, and every library in one piece.  Both together show that  *)
(* all of an execution has its types.  The last part is about both as      *)
(* well: what the loader leaves lies apart, so the prologue enters all of  *)
(* it into memory, and what it does behind that enters nothing else.       *)
(***************************************************************************)
EXTENDS NativeExecution, ThreadProofs, FiniteSetTheorems, SequenceTheorems

\* The machine an execution begins with.
LEMMA FreshMachineIsSane ==
  ASSUME NEW l \in Launches
  PROVE  IsSane(FreshMachine(l))
<1> DEFINE s == FreshMachine(l)
           x == InputStream(l.content)
<1>1. IsText(x)
  <2>1. IsWord(l.content, Len(l.content))
    BY LaunchesAssumption, SequenceIsWord
  <2>2. IsSeq(l.content, Len(l.content)) /\ Len(l.content) \in Nat
    BY <2>1, WordIsSeq DEF IsWord
  <2> QED BY <2>1, <2>2 DEF InputStream, IsText, IsStream
<1>2. IsText(ClosedStream)
  BY DEF ClosedStream, IsText, IsStream, IsSeq, IsWord
<1> HIDE DEF x
<1>3. IsMachine(s) /\ s.reg = << >> /\ s.mem = << >> /\ s.streams = 1 :> x
  BY DEF FreshMachine, IsMachine, x
<1> HIDE DEF s
<1>4. HasBytes(<< >>)
  BY DEF HasBytes, ByteAt, FreshByte, Byte
<1>5. \A id : StreamInfo(s, id) = x \/ StreamInfo(s, id) = ClosedStream
  BY <1>3 DEF StreamInfo, :>
<1> QED BY <1>1, <1>2, <1>3, <1>4, <1>5 DEF IsSane, s

\* Before anything is executed the modules are being loaded.
LEMMA ExecutionBegins ==
  ASSUME Init
  PROVE  TwinFollows
<1> DEFINE s == FreshMachine(launch)
<1>1. launch \in Launches /\ Begins("fetch", << >>, s, launch.input)
  BY DEF Init
<1>2. launch.input = << >> \/ \E i \in Nat : launch.input = <<"stream", 1, i>>
  <2>1. \A i \in 1..Len(launch.content) : i - 1 \in Nat
    BY <1>1, LaunchesAssumption
  <2> QED BY <1>1, <2>1, LaunchesAssumption
<1>3. IsSane(s)
  BY <1>1, FreshMachineIsSane
<1> HIDE DEF s
<1>4. BeginsOn(s, launch.input)
  BY <1>2, <1>3 DEF BeginsOn
<1> QED BY <1>1, <1>4, ThreadBeginsAgreed

\* As long as files are loaded, the thread does not run.
LoadingIsFirst == stage = "loading" => phase = "fetch"

\* No step undoes that.
LEMMA LoadingStaysFirst ==
  ASSUME LoadingIsFirst, [Next]_vars
  PROVE  LoadingIsFirst'
<1>1. CASE LoadFiles
  BY <1>1 DEF LoadFiles, LoadingIsFirst, threadVars
<1>2. CASE BuildPrologue
  <2>1. stage' = "prologue" \/ UNCHANGED <<stage, phase>>
    BY <1>2 DEF BuildPrologue, threadVars
  <2> QED BY <2>1 DEF LoadingIsFirst
<1>3. CASE ExecuteNode
  <2>1. phase = "run" /\ stage' = stage
    BY <1>3 DEF ExecuteNode, ThreadStep, PassInstruction, PassGuard, PassCall, EnterLoop, LeaveLoop, ReachExit
  <2> QED BY <2>1 DEF LoadingIsFirst
<1>4. CASE EnterProgram
  BY <1>4 DEF EnterProgram, LoadingIsFirst
<1>5. CASE RecogniseNext
  BY <1>5 DEF RecogniseNext, LoadingIsFirst
<1>6. CASE FinishNative
  BY <1>6 DEF FinishNative, LoadingIsFirst
<1>7. CASE UNCHANGED vars
  BY <1>7 DEF vars, threadVars, LoadingIsFirst
<1> QED BY <1>1, <1>2, <1>3, <1>4, <1>5, <1>6, <1>7 DEF Next

\* The loader, the recogniser and what leads from one stage to the next leave the
\* machines alone.
LEMMA StepsAreOfThread ==
  ASSUME LoadingIsFirst, [Next]_vars
  PROVE  [ThreadStep \/ MachinesRest]_threadVars
<1>1. CASE LoadFiles
  BY <1>1 DEF LoadFiles
<1>2. CASE BuildPrologue
  <2>1. \/ phase # "failed" /\ UNCHANGED <<cpu, twin, together, impacts>>
        \/ UNCHANGED threadVars
    BY <1>2 DEF BuildPrologue, LoadingIsFirst
  <2> QED BY <2>1 DEF MachinesRest
<1>3. CASE ExecuteNode
  BY <1>3 DEF ExecuteNode
<1>4. CASE EnterProgram
  BY <1>4 DEF EnterProgram, MachinesRest
<1>5. CASE RecogniseNext
  BY <1>5 DEF RecogniseNext, MachinesRest
<1>6. CASE FinishNative
  BY <1>6 DEF FinishNative, MachinesRest
<1>7. CASE UNCHANGED vars
  BY <1>7 DEF vars
<1> QED BY <1>1, <1>2, <1>3, <1>4, <1>5, <1>6, <1>7 DEF Next

\* Machines that agree but for links, from the first instruction on.
LEMMA TwinFollowsThroughout == Spec /\ []NextIsWellFormed => []TwinFollows
<1>1. Init => LoadingIsFirst /\ TwinFollows
  BY ExecutionBegins DEF Init, Begins, LoadingIsFirst
<1>2. LoadingIsFirst /\ [Next]_vars => LoadingIsFirst'
  BY LoadingStaysFirst
<1>3. LoadingIsFirst /\ [Next]_vars => [ThreadStep \/ MachinesRest]_threadVars
  BY StepsAreOfThread
<1> QED BY <1>1, <1>2, <1>3, TwinAlwaysFollows, PTL DEF Spec, Execution

\* In the whole execution of a native program the pools of the machine hold bytes, ...
THEOREM PoolsAreBytesThroughout == Spec /\ []NextIsWellFormed => []PoolsAreBytes
<1>1. TwinFollows => PoolsAreBytes
  BY SaneMachinesHavePools DEF TwinFollows
<1> QED BY <1>1, TwinFollowsThroughout, PTL

\* ... and no data dependence on a byte of the input stream is lost.
THEOREM ImpactsCoverDifferencesThroughout ==
  Spec /\ []NextIsWellFormed => []ImpactsCoverDifferences
<1>1. TwinFollows => ImpactsCoverDifferences
  BY AgreementCovers DEF TwinFollows
<1> QED BY <1>1, TwinFollowsThroughout, PTL

-----------------------------------------------------------------------------
(* Arithmetic of pages and alignments *)

\* Division with remainder, and its uniqueness.
LEMMA Remainder ==
  ASSUME NEW m \in Nat \ {0}, NEW x \in Int
  PROVE  x % m \in 0..(m - 1) /\ x = (x \div m) * m + (x % m) /\ x \div m \in Int
<1>1. x % m \in 0..(m - 1)
  BY Z3
<1>2. x = (x \div m) * m + (x % m)
  BY Z3
<1>3. x \div m \in Int
  BY Z3
<1> QED BY <1>1, <1>2, <1>3

\* What is left of a multiple and a rest is the rest.
LEMMA RemainderIs ==
  ASSUME NEW m \in Nat \ {0}, NEW x \in Int, NEW j \in Int, NEW r \in 0..(m - 1), x = j * m + r
  PROVE  x % m = r
BY Z3

\* Adding a multiple changes no remainder.
LEMMA SameRemainder ==
  ASSUME NEW m \in Nat \ {0}, NEW x \in Int, NEW y \in Int, y % m = 0
  PROVE  (x + y) % m = x % m
<1> DEFINE j == x \div m
           k == y \div m
<1>1. x = j * m + (x % m) /\ j \in Int /\ x % m \in 0..(m - 1)
  BY Remainder
<1>2. y = k * m + 0 /\ k \in Int
  BY Remainder
<1> HIDE DEF j, k
<1>3. x + y = (j + k) * m + (x % m) /\ j + k \in Int /\ x % m \in 0..(m - 1)
  <2>1. (j + k) * m = j * m + k * m /\ {j * m, k * m} \subseteq Int
    BY <1>1, <1>2
  <2> DEFINE u == j * m
             v == k * m
             r == x % m
  <2>2. x = u + r /\ y = v + 0 /\ u \in Int /\ v \in Int /\ r \in Int
    BY <1>1, <1>2, <2>1
  <2>3. x + y = u + v + r
    <3> HIDE DEF u, v, r
    <3> QED BY <2>2
  <2> QED BY <1>1, <1>2, <2>1, <2>3
<1> DEFINE q == j + k
           r == x % m
<1>4. x + y = q * m + r /\ q \in Int /\ r \in 0..(m - 1) /\ x + y \in Int
  BY <1>3
<1> HIDE DEF q, r
<1>5. (x + y) % m = r
  BY <1>4, RemainderIs
<1> QED BY <1>5 DEF r

\* A multiple of a multiple is one.
LEMMA MultipleOfMultiple ==
  ASSUME NEW m \in Nat \ {0}, NEW y \in Int, NEW k \in Int, y % m = 0
  PROVE  (k * y) % m = 0
<1>1. PICK j \in Int : y = j * m
  <2>1. y = (y \div m) * m + 0 /\ y \div m \in Int
    BY Remainder
  <2> DEFINE d == y \div m
  <2>2. d \in Int /\ d * m \in Int /\ y = d * m + 0
    BY <2>1
  <2> HIDE DEF d
  <2> QED BY <2>2
<1>2. k * y = (k * j) * m + 0 /\ k * j \in Int /\ k * y \in Int
  BY <1>1
<1> DEFINE q == k * j
           x == k * y
<1>3. x = q * m + 0 /\ q \in Int /\ x \in Int /\ 0 \in 0..(m - 1)
  BY <1>2
<1> HIDE DEF q, x
<1>4. x % m = 0
  BY <1>3, RemainderIs
<1> QED BY <1>4 DEF x

\* Rounding up goes to a page begin that is not more than a page away.
LEMMA PageUpBounds ==
  ASSUME NEW x \in Nat
  PROVE  PageUp(x) \in Nat /\ x <= PageUp(x)
<1>1. Page \in Nat \ {0}
  BY DescriptorAssumption
<1>2. x % Page \in 0..(Page - 1)
  BY <1>1, Remainder
<1> DEFINE r == x % Page
<1>3. r \in 0..(Page - 1) /\ PageUp(x) = IF r = 0 THEN x ELSE x + Page - r
  BY <1>2 DEF PageUp
<1> HIDE DEF r
<1> QED BY <1>1, <1>3

\* What is moved by whole pages is rounded up to an address moved as far.
LEMMA PageUpMoves ==
  ASSUME NEW x \in Nat, NEW y \in Int, y % Page = 0
  PROVE  PageUp(x + y) = PageUp(x) + y
<1>1. Page \in Nat \ {0}
  BY DescriptorAssumption
<1>2. (x + y) % Page = x % Page
  <2>1. x \in Int
    OBVIOUS
  <2> QED BY <1>1, <2>1, SameRemainder, Zenon
<1>3. x % Page \in 0..(Page - 1)
  BY <1>1, Remainder
<1> DEFINE r == x % Page
           z == x + y
<1>4. PageUp(x) = IF r = 0 THEN x ELSE x + Page - r
  BY DEF PageUp
<1>5. z % Page = r
  BY <1>2
<1>6. PageUp(z) = IF z % Page = 0 THEN z ELSE z + Page - (z % Page)
  BY DEF PageUp
<1>7. r \in Int /\ z = x + y
  BY <1>3
<1> HIDE DEF r, z
<1>8. PageUp(z) = IF r = 0 THEN z ELSE z + Page - r
  BY <1>5, <1>6
<1>9. PageUp(z) = PageUp(x) + y
  BY <1>1, <1>4, <1>7, <1>8
<1> QED BY <1>9 DEF z

\* Products are at least as great as their factors.
LEMMA ProductBounds ==
  ASSUME NEW k \in Nat, NEW a \in Nat \ {0}
  PROVE  k * a \in Nat /\ k <= k * a /\ (k > 0 => a <= k * a) /\ (k + 1) * a = k * a + a
         /\ (k > 0 => (k - 1) * a = k * a - a)
OBVIOUS

-----------------------------------------------------------------------------
(* Where sections lie *)

\* A section has its fields, and at least one byte.
HasSectionFields(s) ==
  s = [start |-> s.start, data |-> s.data, read |-> s.read, write |-> s.write,
       execute |-> s.execute, file |-> s.file]

\* A section holds at least one byte.
IsSection(s) ==
  /\ HasSectionFields(s)
  /\ IsWord(s.data, Len(s.data)) /\ Len(s.data) > 0

\* Sections, at their addresses.
AreSections(sections) ==
  /\ sections = [b \in DOMAIN sections |-> sections[b]]
  /\ DOMAIN sections \subseteq Nat
  /\ \A b \in DOMAIN sections : IsSection(sections[b]) /\ sections[b].start = b

\* Where they end.
EndsOf(sections) == {b + Len(sections[b].data) : b \in DOMAIN sections}

\* One ends before the next begins.
LieApart(sections) ==
  \A b, c \in DOMAIN sections : b < c => b + Len(sections[b].data) <= c

\* Sections lie one behind the other, and in front of where they end.
AreLaidOut(sections) ==
  /\ AreSections(sections)
  /\ LieApart(sections)
  /\ EndOf(sections) \in Nat
  /\ \A b \in DOMAIN sections : b + Len(sections[b].data) <= EndOf(sections)

\* Numbers below a bound have a greatest one.
LEMMA GreatestExists ==
  ASSUME NEW S \in SUBSET Nat, S # {}, NEW n \in Nat, \A b \in S : b <= n
  PROVE  \E last \in S : \A c \in S : c <= last
<1> DEFINE D == {n - b : b \in S}
<1>1. D \in SUBSET Nat /\ D # {}
  <2>1. \A b \in S : n - b \in Nat
    OBVIOUS
  <2>2. PICK b \in S : TRUE
    OBVIOUS
  <2>3. n - b \in D
    OBVIOUS
  <2> QED BY <2>1, <2>3
<1>2. PICK t \in D : \A u \in D : t <= u
  <2> HIDE DEF D
  <2> QED BY <1>1, LeastExists
<1>3. PICK b \in S : t = n - b
  OBVIOUS
<1>4. \A c \in S : c <= b
  <2>1. TAKE c \in S
  <2>2. n - c \in D
    OBVIOUS
  <2> QED BY <1>2, <1>3, <2>2
<1> QED BY <1>4

\* The last of the sections ends them.
LEMMA EndIs ==
  ASSUME NEW sections, DOMAIN sections \subseteq Nat,
         NEW last \in DOMAIN sections, \A c \in DOMAIN sections : c <= last
  PROVE  EndOf(sections) = last + Len(sections[last].data)
<1>1. sections # << >>
  OBVIOUS
<1>2. (CHOOSE b \in DOMAIN sections : \A c \in DOMAIN sections : c <= b) = last
  OBVIOUS
<1> QED BY <1>1, <1>2 DEF EndOf

\* The lengths of sections are positive.
LEMMA SectionLength ==
  ASSUME NEW sections, AreSections(sections), NEW b \in DOMAIN sections
  PROVE  Len(sections[b].data) \in Nat /\ Len(sections[b].data) > 0 /\ b \in Nat
BY DEF AreSections, IsSection, IsWord

\* Sections that do not overlap, below a bound, end with the last of them.
LEMMA LaidOutBelow ==
  ASSUME NEW sections, AreSections(sections), LieApart(sections),
         NEW n \in Nat, \A b \in DOMAIN sections : b <= n
  PROVE  AreLaidOut(sections)
<1>1. CASE DOMAIN sections = {}
  <2>1. sections = << >>
    BY <1>1 DEF AreSections
  <2> QED BY <1>1, <2>1 DEF AreLaidOut, EndOf
<1>2. CASE DOMAIN sections # {}
  <2>1. DOMAIN sections \in SUBSET Nat
    BY DEF AreSections
  <2>2. PICK last \in DOMAIN sections : \A c \in DOMAIN sections : c <= last
    BY <1>2, <2>1, GreatestExists
  <2>3. EndOf(sections) = last + Len(sections[last].data)
    BY <2>1, <2>2, EndIs
  <2>4. EndOf(sections) \in Nat /\ EndOf(sections) >= last + Len(sections[last].data)
    BY <2>3, SectionLength
  <2>5. ASSUME NEW b \in DOMAIN sections PROVE b + Len(sections[b].data) <= EndOf(sections)
    <3>1. CASE b = last
      BY <2>3, <3>1, <2>4, SectionLength
    <3>2. CASE b # last
      <4>1. b < last /\ b \in Nat /\ last \in Nat
        BY <2>2, <3>2, SectionLength
      <4>2. b + Len(sections[b].data) <= last
        BY <4>1 DEF LieApart
      <4> QED BY <2>4, <4>1, <4>2, <2>3, SectionLength
    <3> QED BY <3>1, <3>2
  <2> QED BY <2>4, <2>5 DEF AreLaidOut
<1> QED BY <1>1, <1>2

-----------------------------------------------------------------------------
(* Where a segment of a library goes *)

\* Greater factors make products that are greater by the other factor at least.
LEMMA ProductGrows ==
  ASSUME NEW k \in Nat, NEW l \in Nat, NEW m \in Nat \ {0}, k < l
  PROVE  l * m >= k * m + m /\ {k * m, l * m} \subseteq Nat
<1> DEFINE d == l - k
<1>1. d \in Nat /\ d > 0 /\ l = d + k
  OBVIOUS
<1> HIDE DEF d
<1>2. l * m = d * m + k * m
  BY <1>1
<1>3. d * m \in Nat /\ k * m \in Nat /\ m <= d * m
  BY <1>1, ProductBounds
<1> DEFINE u == l * m
           v == d * m
           w == k * m
<1>4. u = v + w /\ v \in Nat /\ w \in Nat /\ m <= v
  BY <1>2, <1>3
<1>5. u >= w + m /\ {u, w} \subseteq Nat
  <2> HIDE DEF u, v, w
  <2> QED BY <1>4
<1> QED BY <1>5

\* An address is the first one in steps of m that does not lie in front of a bound.
IsFirstFrom(a, p, m, bound) == bound <= a /\ (bound > a - m \/ a = p)

\* There is one ...
LEMMA FirstExists ==
  ASSUME NEW p \in Nat, NEW m \in Nat \ {0}, NEW bound \in Nat
  PROVE  \E k \in 0..bound : IsFirstFrom(p + k * m, p, m, bound)
<1> DEFINE S == {k \in Nat : bound <= p + k * m}
<1>1. bound \in S
  BY ProductBounds
<1>2. PICK k \in S : \A l \in S : k <= l
  <2>1. S \in SUBSET Nat /\ S # {}
    BY <1>1
  <2> HIDE DEF S
  <2> QED BY <2>1, LeastExists
<1>3. k \in 0..bound /\ bound <= p + k * m /\ k * m \in Nat
  BY <1>1, <1>2, ProductBounds
<1>4. CASE k = 0
  BY <1>3, <1>4 DEF IsFirstFrom
<1>5. CASE k # 0
  <2>1. k - 1 \in Nat /\ ~(k <= k - 1)
    BY <1>3, <1>5
  <2>2. k - 1 \notin S
    <3> HIDE DEF S
    <3> QED BY <1>2, <2>1
  <2>3. bound > p + (k - 1) * m /\ (k - 1) * m = k * m - m
    <3>1. (k - 1) * m = k * m - m
      BY <1>3, <1>5, ProductBounds
    <3>2. ~(bound <= p + (k - 1) * m)
      BY <2>1, <2>2
    <3>3. p + (k - 1) * m \in Int
      BY <1>3, <3>1
    <3> QED BY <3>1, <3>2, <3>3
  <2> QED BY <1>3, <2>3 DEF IsFirstFrom
<1> QED BY <1>3, <1>4, <1>5

\* ... and it is the only one.
LEMMA FirstIsUnique ==
  ASSUME NEW p \in Nat, NEW m \in Nat \ {0}, NEW bound \in Nat, NEW k \in Nat, NEW l \in Nat,
         IsFirstFrom(p + k * m, p, m, bound), IsFirstFrom(p + l * m, p, m, bound)
  PROVE  p + k * m = p + l * m
<1>1. \A i, j \in Nat : IsFirstFrom(p + i * m, p, m, bound) /\ IsFirstFrom(p + j * m, p, m, bound) => ~(i < j)
  <2> SUFFICES ASSUME NEW i \in Nat, NEW j \in Nat, i < j,
                      IsFirstFrom(p + i * m, p, m, bound), IsFirstFrom(p + j * m, p, m, bound)
               PROVE  FALSE
    OBVIOUS
  <2> DEFINE u == i * m
             v == j * m
  <2>1. v >= u + m /\ u \in Nat /\ v \in Nat
    BY ProductGrows
  <2>2. bound <= p + u /\ (bound > p + v - m \/ p + v = p)
    BY DEF IsFirstFrom
  <2> HIDE DEF u, v
  <2> QED BY <2>1, <2>2
<1>2. k = l
  BY <1>1
<1> QED BY <1>2

\* choose_address_for_section moves a segment by a multiple of its alignment, to the
\* first address behind the page in which the sections end.
LEMMA AddressChosen ==
  ASSUME NEW segment, IsSegment(segment), NEW sections, EndOf(sections) \in Nat
  PROVE  \E k \in Nat :
           /\ ChooseAddressForSection(segment, sections) = LibraryBase + segment.start + k * segment.align
           /\ IsFirstFrom(LibraryBase + segment.start + k * segment.align, LibraryBase + segment.start,
                          segment.align, FreePage(sections))
<1> DEFINE p == LibraryBase + segment.start
           m == segment.align
           bound == FreePage(sections)
           A == {p + k * m : k \in 0..bound}
<1>1. /\ LibraryBase \in Nat /\ segment.start \in Nat /\ m \in 1..LibraryBase
  BY LoaderAssumption DEF IsSegment
<1>2. p \in Nat /\ m \in Nat \ {0} /\ ~(p < m)
  BY <1>1
<1>3. PreferredAddress(segment) = p
  BY <1>2 DEF PreferredAddress
<1>4. bound \in Nat
  BY PageUpBounds DEF FreePage
<1> DEFINE Fits(a) == bound <= a /\ (bound > a - m \/ a = p)
<1>5. ChooseAddressForSection(segment, sections) = CHOOSE a \in A : Fits(a)
  BY <1>3 DEF ChooseAddressForSection
<1> HIDE DEF p, m, bound
<1>6. \E a \in A : Fits(a)
  <2>1. PICK k \in 0..bound : IsFirstFrom(p + k * m, p, m, bound)
    BY <1>2, <1>4, FirstExists
  <2>2. p + k * m \in A /\ Fits(p + k * m)
    BY <2>1 DEF IsFirstFrom
  <2> QED BY <2>2
<1>7. PICK a \in A : a = ChooseAddressForSection(segment, sections) /\ Fits(a)
  BY <1>5, <1>6
<1>8. PICK k \in 0..bound : a = p + k * m
  BY <1>7
<1>9. k \in Nat /\ IsFirstFrom(p + k * m, p, m, bound)
  BY <1>4, <1>7, <1>8 DEF IsFirstFrom
<1> QED BY <1>7, <1>8, <1>9 DEF p, m, bound

\* If the last sections are those of the segment in front, that were moved by k
\* steps, a segment that is close is moved by k steps, too.
LEMMA CloseSegmentFollows ==
  ASSUME NEW segment, IsSegment(segment), NEW sections, EndOf(sections) \in Nat,
         NEW k \in Nat, NEW e \in Nat,
         EndOf(sections) = e + LibraryBase + k * segment.align,
         segment.align % Page = 0,
         segment.start - segment.align < PageUp(e), PageUp(e) <= segment.start
  PROVE  ChooseAddressForSection(segment, sections) = LibraryBase + segment.start + k * segment.align
<1> DEFINE p == LibraryBase + segment.start
           m == segment.align
           bound == FreePage(sections)
           d == LibraryBase + k * m
<1>1. LibraryBase \in Nat /\ segment.start \in Nat /\ m \in Nat \ {0} /\ Page \in Nat \ {0}
  BY LoaderAssumption, DescriptorAssumption DEF IsSegment
<1>2. k * m \in Nat
  BY <1>1, ProductBounds
<1>3. d \in Int /\ d % Page = 0
  <2> DEFINE y == k * m
  <2>1. y % Page = 0 /\ y \in Int
    <3>1. m \in Int /\ k \in Int
      BY <1>1
    <3> QED BY <1>1, <1>2, <3>1, MultipleOfMultiple
  <2>2. LibraryBase \in Int /\ LibraryBase % Page = 0
    BY LoaderAssumption
  <2> HIDE DEF y
  <2>3. (LibraryBase + y) % Page = LibraryBase % Page
    BY <1>1, <2>1, <2>2, SameRemainder, Zenon
  <2> QED BY <2>1, <2>2, <2>3 DEF y
<1>4. bound = PageUp(e) + d
  <2>1. EndOf(sections) = e + d
    BY <1>1, <1>2
  <2> HIDE DEF d
  <2> QED BY <1>3, <2>1, PageUpMoves DEF FreePage
<1>5. PageUp(e) \in Nat
  BY PageUpBounds
<1>6. IsFirstFrom(p + k * m, p, m, bound)
  <2> DEFINE u == k * m
  <2>0. {p, m, bound} \subseteq Int
    BY <1>1, <1>3, <1>4, <1>5
  <2>1. u \in Nat /\ bound = PageUp(e) + (LibraryBase + u) /\ p = LibraryBase + segment.start
        /\ segment.start - m < PageUp(e) /\ PageUp(e) <= segment.start
    BY <1>2, <1>4
  <2> HIDE DEF u, p, m, bound
  <2>2. bound <= p + u /\ bound > p + u - m
    BY <1>1, <1>5, <2>1
  <2>3. IsFirstFrom(p + u, p, m, bound)
    BY <2>0, <2>1, <2>2 DEF IsFirstFrom
  <2> QED BY <2>3 DEF u
<1>7. PICK l \in Nat : /\ ChooseAddressForSection(segment, sections) = p + l * m
                       /\ IsFirstFrom(p + l * m, p, m, bound)
  BY AddressChosen
<1>8. p + l * m = p + k * m
  <2>1. p \in Nat /\ bound \in Nat
    BY <1>1, PageUpBounds DEF FreePage
  <2> HIDE DEF p, m, bound
  <2> QED BY <1>1, <1>6, <1>7, <2>1, FirstIsUnique
<1> QED BY <1>7, <1>8

-----------------------------------------------------------------------------
(* A segment is entered in one piece, or in two *)

\* Pieces lie between two addresses without overlapping, and reach the second.
ArePieces(pieces, start, end) ==
  /\ \A p \in pieces : IsSection(p) /\ p.start \in Nat /\ start <= p.start /\ p.start + Len(p.data) <= end
  /\ \A p, q \in pieces : p # q => p.start + Len(p.data) <= q.start \/ q.start + Len(q.data) <= p.start
  /\ \E p \in pieces : p.start + Len(p.data) = end

\* A part of a word is a word.
LEMMA PartIsWord ==
  ASSUME NEW n \in Nat, NEW w, IsWord(w, n), NEW a \in 1..n, NEW b \in a..n
  PROVE  IsWord(SubSeq(w, a, b), b - a + 1)
<1>1. w \in Seq(Byte) /\ Len(w) = n
  BY DEF IsWord
<1> DEFINE s == SubSeq(w, a, b)
<1>2. Len(w) \in Nat /\ a \in Nat /\ b \in Nat /\ a <= b /\ b <= Len(w) /\ 1 <= a
  BY <1>1
<1> HIDE DEF s
<1>3. s \in [1..(b - a + 1) -> Byte]
  <2>1. \A i \in 1..(b - a + 1) : a + i - 1 \in 1..n
    BY <1>2, <1>1
  <2>2. s = [i \in 1..(b - a + 1) |-> w[a + i - 1]]
    BY <1>1, <1>2 DEF s
  <2>3. \A i \in 1..(b - a + 1) : w[a + i - 1] \in Byte
    BY <2>1 DEF IsWord
  <2> QED BY <2>2, <2>3
<1>4. b - a + 1 \in Nat
  BY <1>2
<1> QED BY <1>3, <1>4 DEF IsWord, s

\* A section with other content.
LEMMA SectionWith ==
  ASSUME NEW t, HasSectionFields(t), NEW n, IsWord(t.data, n), n > 0
  PROVE  IsSection(t) /\ Len(t.data) = n
BY WordIsSeq DEF IsSection

\* The front of a section, what lies behind it, and a section with other content.
Front(s, data) == [s EXCEPT !.data = data, !.write = FALSE]
Back(s, start, data) == [s EXCEPT !.start = start, !.data = data]
WithData(s, data) == [s EXCEPT !.data = data]

\* The parts of a section that was cut, field by field.
LEMMA SectionExcept ==
  ASSUME NEW s, HasSectionFields(s), NEW start, NEW data
  PROVE  /\ Front(s, data) = [start |-> s.start, data |-> data, read |-> s.read, write |-> FALSE,
                              execute |-> s.execute, file |-> s.file]
         /\ Back(s, start, data) = [start |-> start, data |-> data, read |-> s.read, write |-> s.write,
                                    execute |-> s.execute, file |-> s.file]
         /\ WithData(s, data) = [start |-> s.start, data |-> data, read |-> s.read, write |-> s.write,
                                 execute |-> s.execute, file |-> s.file]
<1> DEFINE a == s.start  b == s.data  c == s.read  d == s.write  e == s.execute  f == s.file
<1>0. s = [start |-> a, data |-> b, read |-> c, write |-> d, execute |-> e, file |-> f]
  BY DEF HasSectionFields
<1> HIDE DEF a, b, c, d, e, f
<1> DEFINE t == [s EXCEPT !.data = data]
           u == [s EXCEPT !.start = start]
           no == FALSE
<1>3. /\ t = [start |-> a, data |-> data, read |-> c, write |-> d, execute |-> e, file |-> f]
      /\ u = [start |-> start, data |-> b, read |-> c, write |-> d, execute |-> e, file |-> f]
  BY <1>0
<1>4. Front(s, data) = [t EXCEPT !.write = no]
  BY DEF Front
<1>5. Back(s, start, data) = [u EXCEPT !.data = data]
  BY DEF Back
<1>6. WithData(s, data) = t
  BY DEF WithData
<1> HIDE DEF t, u, no
<1>7. [t EXCEPT !.write = no]
        = [start |-> a, data |-> data, read |-> c, write |-> no, execute |-> e, file |-> f]
  BY <1>3
<1>8. [u EXCEPT !.data = data]
        = [start |-> start, data |-> data, read |-> c, write |-> d, execute |-> e, file |-> f]
  BY <1>3
<1> QED BY <1>3, <1>4, <1>5, <1>6, <1>7, <1>8 DEF a, b, c, d, e, f, no

\* They are sections again.
LEMMA PartsOfSection ==
  ASSUME NEW s, HasSectionFields(s), NEW start, NEW data
  PROVE  /\ HasSectionFields(Front(s, data)) /\ Front(s, data).start = s.start /\ Front(s, data).data = data
         /\ HasSectionFields(Back(s, start, data))
         /\ Back(s, start, data).start = start /\ Back(s, start, data).data = data
         /\ HasSectionFields(WithData(s, data)) /\ WithData(s, data).data = data
         /\ WithData(s, data).start = s.start
BY SectionExcept DEF HasSectionFields

\* split_section_by_pltgot loses nothing.
LEMMA PiecesOfSection ==
  ASSUME NEW section, IsSection(section), section.start \in Nat, NEW segment, segment.start \in Nat,
         NEW pltgot \in Nat
  PROVE  ArePieces(SplitSectionByPltgot(section, segment, pltgot),
                   section.start, section.start + Len(section.data))
<1> DEFINE cut == pltgot - segment.start
           last == Len(section.data)
           whole == cut <= 0 \/ cut >= last - 1 \/ section.execute \/ ~section.read \/ ~section.write
           first == [section EXCEPT !.data = SubSeq(@, 1, cut), !.write = FALSE]
           second == [section EXCEPT !.start = @ + cut, !.data = SubSeq(@, cut + 1, last)]
           pieces == SplitSectionByPltgot(section, segment, pltgot)
<1>1. last \in Nat /\ last > 0 /\ IsWord(section.data, last) /\ cut \in Int
  BY DEF IsSection, IsWord
<1>2. pieces = IF whole THEN {section} ELSE {first, second}
  BY DEF SplitSectionByPltgot
<1>3. CASE whole
  BY <1>1, <1>2, <1>3 DEF ArePieces
<1>4. CASE ~whole
  <2>1. cut \in 1..last /\ cut + 1 \in 1..last /\ last \in (cut + 1)..last /\ cut \in 1..cut /\ 1 \in 1..last
    BY <1>1, <1>4
  <2> HIDE DEF cut, last, whole
  <2>2. IsWord(SubSeq(section.data, 1, cut), cut)
    <3>1. IsWord(SubSeq(section.data, 1, cut), cut - 1 + 1)
      BY <1>1, <2>1, PartIsWord
    <3> QED BY <1>1, <3>1
  <2>3. IsWord(SubSeq(section.data, cut + 1, last), last - cut)
    <3>1. IsWord(SubSeq(section.data, cut + 1, last), last - (cut + 1) + 1)
      BY <1>1, <2>1, PartIsWord
    <3>2. last - (cut + 1) + 1 = last - cut
      BY <1>1
    <3> QED BY <3>1, <3>2
  <2>4. IsSection(first) /\ first.start = section.start /\ Len(first.data) = cut
    <3>1. HasSectionFields(first) /\ first.start = section.start /\ first.data = SubSeq(section.data, 1, cut)
      <4> DEFINE data == SubSeq(section.data, 1, cut)
      <4>1. first = Front(section, data)
        BY DEF Front
      <4>2. HasSectionFields(section)
        BY DEF IsSection
      <4> HIDE DEF data, first
      <4>3. HasSectionFields(first) /\ first.start = section.start /\ first.data = data
        BY <4>1, <4>2, PartsOfSection
      <4> QED BY <4>3 DEF data
    <3>2. cut > 0
      BY <2>1
    <3> HIDE DEF first
    <3> QED BY <2>2, <3>1, <3>2, SectionWith
  <2>5. IsSection(second) /\ second.start = section.start + cut /\ Len(second.data) = last - cut
    <3>1. /\ HasSectionFields(second) /\ second.start = section.start + cut
          /\ second.data = SubSeq(section.data, cut + 1, last)
      <4> DEFINE start == section.start + cut
                 data == SubSeq(section.data, cut + 1, last)
      <4>1. second = Back(section, start, data)
        BY DEF Back
      <4>2. HasSectionFields(section)
        BY DEF IsSection
      <4> HIDE DEF start, data, second
      <4>3. HasSectionFields(second) /\ second.start = start /\ second.data = data
        BY <4>1, <4>2, PartsOfSection
      <4> QED BY <4>3 DEF start, data
    <3>2. last - cut > 0
      BY <1>1, <2>1
    <3> HIDE DEF second
    <3> QED BY <2>3, <3>1, <3>2, SectionWith
  <2> HIDE DEF first, second
  <2>6. pieces = {first, second}
    BY <1>2, <1>4
  <2> HIDE DEF pieces
  <2> DEFINE a == section.start
             b == section.start + last
  <2>7. a \in Nat /\ b = a + last
    OBVIOUS
  <2> HIDE DEF a, b
  <2>8. first.start = a /\ second.start = a + cut
    BY <2>4, <2>5 DEF a
  <2>9. ArePieces({first, second}, a, b)
    <3>1. \A p \in {first, second} : IsSection(p) /\ p.start \in Nat /\ a <= p.start /\ p.start + Len(p.data) <= b
      BY <1>1, <2>1, <2>4, <2>5, <2>7, <2>8
    <3>2. first.start + Len(first.data) <= second.start
      BY <1>1, <2>1, <2>4, <2>5, <2>7, <2>8
    <3>3. second.start + Len(second.data) = b
      BY <1>1, <2>1, <2>4, <2>5, <2>7, <2>8
    <3> QED BY <3>1, <3>2, <3>3 DEF ArePieces
  <2> QED BY <2>6, <2>9 DEF last, a, b, pieces
<1> QED BY <1>3, <1>4

\* The table of sections with the pieces of one more segment.
WithPieces(sections, pieces) ==
  [b \in {p.start : p \in pieces} |-> CHOOSE p \in pieces : p.start = b] @@ sections

\* Where the pieces collide with nothing, they become sections.
LEMMA PiecesAreEntered ==
  ASSUME NEW sections, AreLaidOut(sections), NEW pieces, NEW start \in Nat, NEW end \in Nat,
         ArePieces(pieces, start, end), \A p \in pieces : ~Collides(sections, p)
  PROVE  /\ AreLaidOut(WithPieces(sections, pieces))
         /\ EndOf(sections) <= start => EndOf(WithPieces(sections, pieces)) = end
<1> DEFINE N == WithPieces(sections, pieces)
           starts == {p.start : p \in pieces}
           entered == [b \in starts |-> CHOOSE p \in pieces : p.start = b]
<1>1. \A p \in pieces : Len(p.data) \in Nat /\ Len(p.data) > 0 /\ p.start \in Nat
  BY DEF ArePieces, IsSection, IsWord
<1>2. \A p, q \in pieces : p.start = q.start => p = q
  BY <1>1 DEF ArePieces
<1>3. \A p \in pieces : entered[p.start] = p
  <2>1. TAKE p \in pieces
  <2>2. (CHOOSE q \in pieces : q.start = p.start) = p
    BY <1>2
  <2> QED BY <2>2
<1>4. N = [b \in starts \cup DOMAIN sections |-> IF b \in starts THEN entered[b] ELSE sections[b]]
  BY DEF WithPieces, @@
<1> HIDE DEF N, entered
<1>5. DOMAIN N = starts \cup DOMAIN sections /\ \A p \in pieces : p.start \in DOMAIN N /\ N[p.start] = p
  BY <1>3, <1>4
<1>6. \A b \in DOMAIN sections : b \in DOMAIN N /\ N[b] = sections[b]
  <2>1. \A p \in pieces : p.start \notin DOMAIN sections
    BY DEF Collides
  <2> QED BY <1>4, <2>1
<1>7. \A b \in DOMAIN N : (\E p \in pieces : b = p.start) \/ b \in DOMAIN sections
  BY <1>5
<1> HIDE DEF starts
<1>8. AreSections(N)
  <2>1. N = [b \in DOMAIN N |-> N[b]]
    BY <1>4
  <2>2. \A b \in DOMAIN N : b \in Nat /\ IsSection(N[b]) /\ N[b].start = b
    BY <1>1, <1>5, <1>6, <1>7 DEF ArePieces, AreLaidOut, AreSections
  <2> QED BY <2>1, <2>2 DEF AreSections
<1>9. \A b \in DOMAIN sections : Len(sections[b].data) \in Nat /\ Len(sections[b].data) > 0 /\ b \in Nat
  BY SectionLength DEF AreLaidOut
<1>10. LieApart(N)
  <2>1. SUFFICES ASSUME NEW b \in DOMAIN N, NEW c \in DOMAIN N, b < c
                 PROVE  b + Len(N[b].data) <= c
    BY DEF LieApart
  <2>2. CASE b \in DOMAIN sections /\ c \in DOMAIN sections
    BY <1>6, <2>1, <2>2 DEF AreLaidOut, LieApart
  <2>3. ASSUME NEW p \in pieces, b = p.start, c \in DOMAIN sections
        PROVE  b + Len(N[b].data) <= c
    <3>1. ~(c < p.start + Len(p.data) /\ p.start < c + Len(sections[c].data))
      BY <2>3 DEF Collides
    <3>2. p.start < c + Len(sections[c].data)
      BY <1>1, <1>9, <2>1, <2>3
    <3>3. p.start + Len(p.data) <= c
      BY <1>1, <1>9, <2>3, <3>1, <3>2
    <3> QED BY <1>5, <2>3, <3>3
  <2>4. ASSUME NEW p \in pieces, c = p.start, b \in DOMAIN sections
        PROVE  b + Len(N[b].data) <= c
    <3>1. ~(b < p.start + Len(p.data) /\ p.start < b + Len(sections[b].data))
      BY <2>4 DEF Collides
    <3>2. b < p.start + Len(p.data)
      BY <1>1, <1>9, <2>1, <2>4
    <3>3. b + Len(sections[b].data) <= p.start
      BY <1>1, <1>9, <2>4, <3>1, <3>2
    <3> QED BY <1>6, <2>4, <3>3
  <2>5. ASSUME NEW p \in pieces, b = p.start, NEW q \in pieces, c = q.start
        PROVE  b + Len(N[b].data) <= c
    <3>1. p # q /\ (p.start + Len(p.data) <= q.start \/ q.start + Len(q.data) <= p.start)
      BY <1>1, <2>1, <2>5 DEF ArePieces
    <3>2. p.start + Len(p.data) <= q.start
      BY <1>1, <2>1, <2>5, <3>1
    <3> QED BY <1>5, <2>5, <3>2
  <2> QED BY <1>7, <2>2, <2>3, <2>4, <2>5
<1>11. PICK last \in pieces : last.start + Len(last.data) = end
  BY DEF ArePieces
<1>12. AreLaidOut(N)
  <2> DEFINE n == EndOf(sections) + end
  <2>1. EndOf(sections) \in Nat
    BY DEF AreLaidOut
  <2>2. \A b \in DOMAIN sections : b <= EndOf(sections)
    BY <1>9, <2>1 DEF AreLaidOut
  <2>3. \A p \in pieces : p.start <= end
    BY <1>1 DEF ArePieces
  <2>4. n \in Nat /\ \A b \in DOMAIN N : b <= n
    BY <1>1, <1>7, <1>9, <2>1, <2>2, <2>3
  <2> HIDE DEF n
  <2> QED BY <1>8, <1>10, <2>4, LaidOutBelow
<1>13. ASSUME EndOf(sections) <= start
       PROVE  EndOf(N) = end
  <2>1. \A b \in DOMAIN sections : b < last.start
    <3>1. EndOf(sections) \in Nat /\ start <= last.start
      BY DEF AreLaidOut, ArePieces
    <3>2. \A b \in DOMAIN sections : b + Len(sections[b].data) <= EndOf(sections)
      BY DEF AreLaidOut
    <3> QED BY <1>1, <1>9, <1>13, <3>1, <3>2
  <2>2. \A p \in pieces : p.start <= last.start
    <3>1. TAKE p \in pieces
    <3>2. p.start + Len(p.data) <= end
      BY DEF ArePieces
    <3>3. p # last => p.start + Len(p.data) <= last.start \/ end <= p.start
      BY <1>11 DEF ArePieces
    <3> QED BY <1>1, <1>11, <3>2, <3>3
  <2>3. \A b \in DOMAIN N : b <= last.start
    BY <1>1, <1>7, <1>9, <2>1, <2>2
  <2>4. DOMAIN N \subseteq Nat /\ last.start \in DOMAIN N /\ N[last.start] = last
    BY <1>5, <1>8 DEF AreSections
  <2> QED BY <1>11, <2>3, <2>4, EndIs
<1> QED BY <1>12, <1>13 DEF N

-----------------------------------------------------------------------------
(* What relocations write *)

\* Sections of the same lengths at the same places end at the same address.
LEMMA EndOfSameSections ==
  ASSUME NEW sections, AreLaidOut(sections), NEW N, AreSections(N), DOMAIN N = DOMAIN sections,
         \A b \in DOMAIN N : Len(N[b].data) = Len(sections[b].data)
  PROVE  AreLaidOut(N) /\ EndOf(N) = EndOf(sections)
<1>1. AreLaidOut(N)
  <2>1. LieApart(N)
    BY DEF AreLaidOut, LieApart
  <2>2. EndOf(sections) \in Nat
    BY DEF AreLaidOut
  <2>3. \A b \in DOMAIN sections : b <= EndOf(sections)
    BY <2>2, SectionLength DEF AreLaidOut
  <2> QED BY <2>1, <2>2, <2>3, LaidOutBelow
<1>2. CASE DOMAIN N = {}
  BY <1>2 DEF AreLaidOut, AreSections
<1>3. CASE DOMAIN N # {}
  <2>1. DOMAIN N \in SUBSET Nat /\ EndOf(N) \in Nat
    BY <1>1 DEF AreLaidOut, AreSections
  <2>2. \A b \in DOMAIN N : b <= EndOf(N)
    BY <1>1, <2>1, SectionLength DEF AreLaidOut
  <2>3. PICK last \in DOMAIN N : \A c \in DOMAIN N : c <= last
    BY <1>3, <2>1, <2>2, GreatestExists
  <2>4. EndOf(N) = last + Len(N[last].data)
    BY <2>1, <2>3, EndIs
  <2>5. EndOf(sections) = last + Len(sections[last].data)
    BY <2>1, <2>3, EndIs
  <2> QED BY <1>1, <2>4, <2>5
<1> QED BY <1>2, <1>3

\* Relocation writes bytes into sections, and moves none.
LEMMA WrittenKeepsPlaces ==
  ASSUME NEW sections, AreLaidOut(sections), NEW a \in Int, NEW bytes, NEW n, IsWord(bytes, n)
  PROVE  /\ AreLaidOut(Written(sections, a, bytes).sections)
         /\ EndOf(Written(sections, a, bytes).sections) = EndOf(sections)
<1> DEFINE written == {i \in 1..Len(bytes) : \A j \in 1..i : IsMapped(sections, a + j - 1)}
           Patched(b) == [k \in 1..Len(sections[b].data) |->
                            IF b + k - a \in written THEN bytes[b + k - a] ELSE sections[b].data[k]]
           N == [b \in DOMAIN sections |-> WithData(sections[b], Tuple(Patched(b)))]
<1>1. Written(sections, a, bytes).sections = N
  BY DEF Written, WithData
<1>2. written \subseteq 1..n /\ \A i \in 1..n : bytes[i] \in Byte
  BY WordIsSeq
<1> HIDE DEF written
<1>3. ASSUME NEW b \in DOMAIN sections
      PROVE  IsSection(N[b]) /\ Len(N[b].data) = Len(sections[b].data) /\ N[b].start = b
  <2> DEFINE m == Len(sections[b].data)
  <2>1. IsSection(sections[b]) /\ sections[b].start = b
    BY DEF AreLaidOut, AreSections
  <2>2. m \in Nat /\ m > 0 /\ IsWord(sections[b].data, m) /\ HasSectionFields(sections[b])
    BY <2>1 DEF IsSection, IsWord
  <2>3. \A k \in 1..m : sections[b].data[k] \in Byte
    BY <2>2, WordIsSeq
  <2>4. Patched(b) \in [1..m -> Byte]
    <3>1. \A k \in 1..m : (IF b + k - a \in written THEN bytes[b + k - a] ELSE sections[b].data[k]) \in Byte
      BY <1>2, <2>3
    <3> QED BY <3>1
  <2> HIDE DEF m
  <2>5. IsWord(Tuple(Patched(b)), m)
    <3> HIDE DEF Patched
    <3> QED BY <2>2, <2>4, TupleOfBytes
  <2>6. N[b] = WithData(sections[b], Tuple(Patched(b)))
    OBVIOUS
  <2> HIDE DEF N, Patched
  <2>7. HasSectionFields(N[b]) /\ N[b].data = Tuple(Patched(b)) /\ N[b].start = sections[b].start
    BY <2>2, <2>6, PartsOfSection
  <2>8. IsSection(N[b]) /\ Len(N[b].data) = m
    BY <2>2, <2>5, <2>7, SectionWith
  <2> QED BY <2>1, <2>7, <2>8 DEF m
<1>4. DOMAIN N = DOMAIN sections /\ N = [b \in DOMAIN N |-> N[b]]
  OBVIOUS
<1> HIDE DEF N
<1>5. AreSections(N)
  BY <1>3, <1>4 DEF AreSections, AreLaidOut
<1>6. \A b \in DOMAIN N : Len(N[b].data) = Len(sections[b].data)
  BY <1>3, <1>4
<1>7. AreLaidOut(N) /\ EndOf(N) = EndOf(sections)
  BY <1>4, <1>5, <1>6, EndOfSameSections
<1> QED BY <1>1, <1>7

\* Numbers are written little endian.
LEMMA LittleEndianIsWord ==
  ASSUME NEW v \in Int
  PROVE  IsWord(LittleEndian(v), 8) /\ LittleEndian(v) # << >>
<1>1. IsWord(Word(v, 8), 8)
  BY WordIsWord
<1>2. IsWord(LittleEndian(v), 8)
  BY <1>1, ReversedIsWord DEF LittleEndian
<1>3. Len(LittleEndian(v)) = 8
  BY <1>2, WordIsSeq
<1> QED BY <1>2, <1>3

\* The addresses of a file are moved to addresses.
AreFixes(fixes, f) ==
  f \in DOMAIN fixes => DOMAIN fixes[f] \subseteq Nat /\ \A o \in DOMAIN fixes[f] : fixes[f][o] \in Nat

\* adjust_address_to_fixed_sections moves an address as its section was moved.
LEMMA FixedIsNumber ==
  ASSUME NEW fixes, NEW f, AreFixes(fixes, f), NEW a \in Nat
  PROVE  /\ Fixed(fixes, f, a) \in Int
         /\ Fixed(fixes, f, a) # NoAddress => f \in DOMAIN fixes /\ DOMAIN fixes[f] # {}
<1> DEFINE below == IF f \in DOMAIN fixes THEN {o \in DOMAIN fixes[f] : o <= a} ELSE {}
<1>1. CASE below = {}
  <2>1. Fixed(fixes, f, a) = NoAddress
    BY <1>1 DEF Fixed
  <2> QED BY <2>1 DEF NoAddress
<1>2. CASE below # {}
  <2>1. f \in DOMAIN fixes /\ below = {o \in DOMAIN fixes[f] : o <= a}
    BY <1>2
  <2>2. below \in SUBSET Nat /\ (\A o \in below : o <= a /\ fixes[f][o] \in Nat)
    BY <2>1 DEF AreFixes
  <2> DEFINE greatest == CHOOSE o1 \in below : \A o2 \in below : o2 <= o1
  <2>3. greatest \in below
    <3> HIDE DEF below
    <3>1. \E o1 \in below : \A o2 \in below : o2 <= o1
      BY <1>2, <2>2, GreatestExists
    <3> QED BY <3>1
  <2>4. Fixed(fixes, f, a) = fixes[f][greatest] + (a - greatest)
    BY <1>2, <2>1 DEF Fixed
  <2> HIDE DEF greatest
  <2>5. Fixed(fixes, f, a) \in Int
    <3>1. greatest \in Nat /\ fixes[f][greatest] \in Nat
      BY <2>2, <2>3
    <3> QED BY <2>4, <3>1
  <2>6. DOMAIN fixes[f] # {}
    BY <1>2, <2>1
  <2> QED BY <2>1, <2>5, <2>6
<1> QED BY <1>1, <1>2

\* fixed_base_address returns an address.
LEMMA BaseIsNumber ==
  ASSUME NEW fixes, NEW f \in DOMAIN fixes, AreFixes(fixes, f), DOMAIN fixes[f] # {}
  PROVE  BaseOf(fixes, f) \in Nat
<1> DEFINE S == DOMAIN fixes[f]
<1>1. S \in SUBSET Nat /\ S # {}
  BY DEF AreFixes
<1> HIDE DEF S
<1>2. \E o1 \in S : \A o2 \in S : o1 <= o2
  BY <1>1, LeastExists
<1>3. BaseOf(fixes, f) \in {fixes[f][o] : o \in S}
  BY <1>2 DEF BaseOf, S
<1> QED BY <1>3 DEF AreFixes, S

-----------------------------------------------------------------------------
(* The symbols a hash table tells of *)

\* A chain of a GNU hash table ends at a symbol there is.
LEMMA ChainEnds ==
  ASSUME NEW hash, NEW n \in Nat, hash.base \in Nat, hash.base + Len(hash.chains) = n, Len(hash.chains) \in Nat,
         Len(hash.chains) > 0 => hash.chains[Len(hash.chains)],
         NEW symbol \in Nat, hash.base <= symbol, symbol < n
  PROVE  ChainEnd(hash, symbol) \in symbol..(n - 1)
<1> DEFINE Ends(e) == hash.chains[e - hash.base + 1]
           S == {e \in symbol..(n - 1) : Ends(e)}
<1>1. n - 1 \in S
  <2>1. (n - 1) - hash.base + 1 = Len(hash.chains) /\ Len(hash.chains) > 0
    OBVIOUS
  <2> QED BY <2>1
<1>2. PICK e \in S : \A k \in S : e <= k
  <2>1. S \in SUBSET Nat /\ S # {}
    BY <1>1
  <2> HIDE DEF S
  <2> QED BY <2>1, LeastExists
<1>3. e \in symbol..(n - 1) /\ Ends(e) /\ \A k \in symbol..(e - 1) : ~Ends(k)
  <2>1. e \in symbol..(n - 1) /\ Ends(e)
    BY <1>2
  <2>2. ASSUME NEW k \in symbol..(e - 1), Ends(k) PROVE FALSE
    <3>1. k \in S /\ ~(e <= k)
      BY <2>1, <2>2
    <3> HIDE DEF S
    <3> QED BY <1>2, <3>1
  <2> QED BY <2>1, <2>2
<1> HIDE DEF Ends
<1>4. \E d \in symbol..(n - 1) : Ends(d) /\ \A k \in symbol..(d - 1) : ~Ends(k)
  BY <1>3
<1>5. hash.base + Len(hash.chains) - 1 = n - 1
  OBVIOUS
<1>6. ChainEnd(hash, symbol)
        = CHOOSE d \in symbol..(n - 1) : Ends(d) /\ \A k \in symbol..(d - 1) : ~Ends(k)
  BY <1>5 DEF ChainEnd, Ends
<1> QED BY <1>4, <1>6

\* The range of a GNU hash table.
LEMMA GnuRange ==
  ASSUME NEW file, Len(file.symbols) \in Nat, Len(file.symbols) > 0,
         IsHashOf(file.hash, file), file.hash.kind = "gnu", BucketsAreFine(file.hash), ~file.stringsFollow
  PROVE  GnuTable(file.hash).range \subseteq 0..(Len(file.symbols) - 1)
<1> DEFINE hash == file.hash
           n == Len(file.symbols)
           N == Len(hash.buckets)
           used == {j \in 1..N : hash.buckets[j] # 0}
           last == ChainedUpTo(hash, N)
<1>1. /\ n \in Nat /\ N \in Nat /\ hash.base \in Nat /\ hash.base + Len(hash.chains) = n
      /\ Len(hash.chains) \in Nat /\ (Len(hash.chains) > 0 => hash.chains[Len(hash.chains)])
      /\ \A i \in 1..N : hash.buckets[i] \in 0..(n - 1)
      /\ hash.base # n
  BY DEF IsHashOf
<1>2. \A i \in 1..N : hash.buckets[i] # 0 => hash.base <= hash.buckets[i]
  BY DEF BucketsAreFine
<1>3. GnuTable(hash).range = hash.base..(IF last = 0 THEN hash.base ELSE last)
  BY DEF GnuTable
<1> HIDE DEF hash, n, N
<1>4. last \in 0..(n - 1)
  <2>1. CASE used = {}
    <3>1. last = 0
      BY <2>1 DEF ChainedUpTo
    <3> QED BY <1>1, <3>1
  <2>2. CASE used # {}
    <3> DEFINE greatest == CHOOSE j \in used : \A k \in used : k <= j
    <3>1. \E j \in used : \A k \in used : k <= j
      <4>1. used \in SUBSET Nat /\ \A j \in used : j <= N
        BY <1>1
      <4> HIDE DEF used
      <4> QED BY <1>1, <2>2, <4>1, GreatestExists
    <3>2. greatest \in used
      BY <3>1
    <3>3. last = ChainEnd(hash, hash.buckets[greatest])
      BY <2>2 DEF ChainedUpTo
    <3> HIDE DEF greatest, last
    <3> DEFINE symbol == hash.buckets[greatest]
    <3>4. symbol \in Nat /\ hash.base <= symbol /\ symbol < n
      BY <1>1, <1>2, <3>2
    <3> HIDE DEF symbol
    <3>5. ChainEnd(hash, symbol) \in symbol..(n - 1)
      BY <1>1, <3>4, ChainEnds
    <3> QED BY <1>1, <3>3, <3>4, <3>5 DEF symbol
  <2> QED BY <2>1, <2>2
<1> HIDE DEF last
<1>5. GnuTable(hash).range \subseteq 0..(n - 1)
  BY <1>1, <1>3, <1>4
<1> QED BY <1>5 DEF hash, n

\* Whatever is read of the symbols of a file is there.
LEMMA RangeIsOfSymbols ==
  ASSUME NEW f, Len(File(f).symbols) \in Nat, Len(File(f).symbols) > 0, IsHashOf(File(f).hash, File(f)),
         File(f).hash.kind # "none", File(f).hash.kind = "gnu" => BucketsAreFine(File(f).hash)
  PROVE  SymbolTable(f).range \subseteq 0..(Len(File(f).symbols) - 1)
<1> DEFINE file == File(f)
           n == Len(file.symbols)
           table == IF file.hash.kind = "elf" THEN ElfTable(file.hash) ELSE GnuTable(file.hash)
<1> HIDE DEF file
<1>1. SymbolTable(f).range = IF file.stringsFollow THEN 0..(n - 1) ELSE table.range
  <2>1. ElfTable(file.hash) = [listed |-> ElfTable(file.hash).listed, range |-> ElfTable(file.hash).range]
    BY DEF ElfTable
  <2>2. GnuTable(file.hash) = [listed |-> GnuTable(file.hash).listed, range |-> GnuTable(file.hash).range]
    BY DEF GnuTable
  <2>3. table = [listed |-> table.listed, range |-> table.range]
    BY <2>1, <2>2
  <2>4. SymbolTable(f) = [table EXCEPT !.range = IF file.stringsFollow THEN 0..(n - 1) ELSE @]
    BY DEF SymbolTable, file
  <2> HIDE DEF table
  <2> QED BY <2>3, <2>4
<1>2. CASE file.stringsFollow
  BY <1>1, <1>2 DEF file
<1>3. CASE ~file.stringsFollow /\ file.hash.kind = "elf"
  <2>1. table.range = 1..(Len(file.hash.chains) - 1)
    BY <1>3 DEF ElfTable
  <2>2. Len(file.hash.chains) \in 0..n /\ n \in Nat
    BY <1>3 DEF IsHashOf, file
  <2> HIDE DEF table
  <2> QED BY <1>1, <1>3, <2>1, <2>2 DEF file
<1>4. CASE ~file.stringsFollow /\ file.hash.kind = "gnu"
  <2>1. GnuTable(file.hash).range \subseteq 0..(n - 1)
    BY <1>4, GnuRange DEF file
  <2> QED BY <1>1, <1>4, <2>1 DEF file
<1>5. file.hash.kind \in {"elf", "gnu"}
  BY DEF IsHashOf, file
<1> QED BY <1>2, <1>3, <1>4, <1>5

-----------------------------------------------------------------------------
(***************************************************************************)
(* What is true of the loader between two steps.  The last part but two is *)
(* what keeps libraries in one piece: the last segment that was entered    *)
(* is behind all sections, and was moved in steps of its alignment.        *)
(***************************************************************************)
StepNames == {"header", "segments", "entry", "functions", "symbols", "tls", "needed", "got", "plt", "end"}
Frames == [file : DOMAIN launch.disk, step : StepNames, at : Nat \ {0}]

\* The loader has these tables.
IsLoad(l) ==
  l = [frames |-> l.frames, files |-> l.files, skipped |-> l.skipped, needs |-> l.needs,
       sections |-> l.sections, fixes |-> l.fixes, functions |-> l.functions, symbols |-> l.symbols,
       tls |-> l.tls, performed |-> l.performed, refused |-> l.refused, entry |-> l.entry,
       error |-> l.error]

\* All files but the topmost wait for one they need; a file is known as soon as its
\* header was read.
FramesStand ==
  /\ load.frames \in Seq(Frames)
  /\ \A i \in 2..Len(load.frames) : load.frames[i].step = "needed"
  /\ \A i \in 1..Len(load.frames) : load.frames[i].step = "header" <=> ~IsKnown(load.frames[i].file)
  /\ \A i, j \in 1..Len(load.frames) : i # j => load.frames[i].file # load.frames[j].file

\* No file is loaded twice.
FilesStand == load.files \in Seq(DOMAIN launch.disk) /\ IsInjectiveSeq(load.files)

\* The bounds of thread-local storage are numbers, and can be aligned.
IsTls(tls) == tls # NoTls => {tls.start, tls.image, tls.end} \subseteq Int /\ tls.align \in Nat \ {0}

\* Whether a file has any is known when it is loaded.
TlsIsKnown(files, frames, tls) ==
  \A i \in 1..Len(files) :
    files[i] \in DOMAIN tls \/ \E j \in 1..Len(frames) : frames[j].file = files[i]

\* Thread-local storage is known of each file that has got so far.
TlsStands ==
  /\ \A f \in DOMAIN load.tls : IsTls(load.tls[f])
  /\ TlsIsKnown(load.files, load.frames, load.tls)
  /\ \A i \in 1..Len(load.frames) :
       load.frames[i].step \in {"needed", "got", "plt", "end"} => load.frames[i].file \in DOMAIN load.tls

\* The tables are about loaded files.
TablesStand == TablesAreOfLoadedFiles /\ \A s \in load.symbols : s.value \in Nat

\* An executable goes where its file says.
IsPlacedAsIs(f) == IsRoot(f) /\ ~IsLibrary(f)

\* Where the first n segments of a file begin in the file.
Starts(f, n) == {File(f).segments[i].start : i \in 1..n}

\* Where the i-th segment of a file may go: as far as the alignment allows.
IsInSteps(f, i, start) ==
  LET segment == File(f).segments[i]
  IN  IF IsPlacedAsIs(f) THEN start = segment.start
      ELSE \E k \in Nat : start = LibraryBase + segment.start + k * segment.align

IsMovedInSteps(f, i) == IsInSteps(f, i, load.fixes[f][File(f).segments[i].start])

\* Every segment that was entered was moved in steps of its alignment.
FixesStand ==
  \A f \in DOMAIN load.fixes :
    /\ IsKnown(f)
    /\ AreFixes(load.fixes, f)
    /\ \A i \in 1..Len(File(f).segments) :
         File(f).segments[i].start \in DOMAIN load.fixes[f] => IsMovedInSteps(f, i)

\* While the segments of a file are entered, the last of them is behind all sections.
LastStands ==
  load.frames # << >> /\ TopFrame.step = "segments" =>
    LET f == TopFrame.file
        i == TopFrame.at
        last == File(f).segments[i - 1]
    IN  /\ i - 1 <= Len(File(f).segments)
        /\ f \in DOMAIN load.fixes <=> i > 1
        /\ i > 1 => DOMAIN load.fixes[f] = Starts(f, i - 1)
        /\ i > 1 /\ ~IsPlacedAsIs(f) => EndOf(load.sections) = load.fixes[f][last.start] + last.size

\* All of that, and what is to be shown.
LoaderInv ==
  /\ launch \in Launches
  /\ IsLoad(load)
  /\ load.error \in LoadErrors
  /\ FramesStand
  /\ FilesStand
  /\ AreLaidOut(load.sections)
  /\ TlsStands
  /\ TablesStand
  /\ FixesStand
  /\ LastStands
  /\ LibrariesStayInOnePiece

\* It is more than what is promised of the loader's tables.
LEMMA LoaderInvImplies ==
  ASSUME LoaderInv
  PROVE  LoadTypeOK /\ LibrariesStayInOnePiece
<1>1. SectionsAreApart
  BY DEF LoaderInv, AreLaidOut, LieApart, SectionsAreApart
<1>2. SectionsHoldBytes
  <2>1. \A b \in DOMAIN load.sections : IsWord(load.sections[b].data, Len(load.sections[b].data))
    BY DEF LoaderInv, AreLaidOut, AreSections, IsSection
  <2> QED BY <2>1, WordIsSeq DEF SectionsHoldBytes
<1>3. TablesAreOfLoadedFiles
  BY DEF LoaderInv, TablesStand
<1>4. FilesAreLoadedOnce
  BY DEF LoaderInv, FilesStand, FramesStand, FilesAreLoadedOnce
<1> QED BY <1>1, <1>2, <1>3, <1>4 DEF LoaderInv, LoadTypeOK

\* The files of a launch are as the ELF specification wants them.
LEMMA FileIsElf ==
  ASSUME launch \in Launches, NEW f \in DOMAIN launch.disk
  PROVE  IsElf(File(f))
BY LaunchesAssumption DEF File

-----------------------------------------------------------------------------
(* Frames *)

\* The order of the steps.
LEMMA StepsAre ==
  /\ StepBehind("header") = "segments" /\ StepBehind("segments") = "entry"
  /\ StepBehind("entry") = "functions" /\ StepBehind("functions") = "symbols"
  /\ StepBehind("symbols") = "tls" /\ StepBehind("tls") = "needed"
  /\ StepBehind("needed") = "got" /\ StepBehind("got") = "plt" /\ StepBehind("plt") = "end"
<1>1. Len(Steps) = 10
  BY DEF Steps
<1>2. \A k \in 1..9 : StepBehind(Steps[k]) = Steps[k + 1]
  <2>1. TAKE k \in 1..9
  <2>2. (CHOOSE i \in 1..9 : Steps[i] = Steps[k]) = k
    BY DEF Steps
  <2>3. 1..(Len(Steps) - 1) = 1..9
    BY <1>1
  <2>4. StepBehind(Steps[k]) = Steps[1 + CHOOSE i \in 1..9 : Steps[i] = Steps[k]]
    BY <2>3 DEF StepBehind
  <2>5. 1 + k = k + 1
    OBVIOUS
  <2>6. StepBehind(Steps[k]) = Steps[1 + k]
    BY <2>2, <2>4, Zenon
  <2> QED BY <2>5, <2>6
<1> QED BY <1>2 DEF Steps

\* The fields of the loader other than its frames stay.
OthersStay(l, k) ==
  /\ k.files = l.files /\ k.skipped = l.skipped /\ k.needs = l.needs
  /\ k.sections = l.sections /\ k.fixes = l.fixes /\ k.functions = l.functions
  /\ k.symbols = l.symbols /\ k.tls = l.tls /\ k.performed = l.performed
  /\ k.refused = l.refused /\ k.entry = l.entry /\ k.error = l.error

\* The topmost frame gets to a step, and to a position in it.
FramesGetTo(F, G, step, at) ==
  /\ G \in Seq(Frames) /\ Len(G) = Len(F) /\ Len(F) >= 1
  /\ G[1].file = F[1].file /\ G[1].step = step /\ G[1].at = at
  /\ \A i \in 2..Len(F) : G[i] = F[i]

\* Only the topmost frame has got on.
GetsTo(l, k, step, at) ==
  /\ IsLoad(k)
  /\ FramesGetTo(l.frames, k.frames, step, at)
  /\ OthersStay(l, k)

\* A sequence with another head.
LEMMA OtherHead ==
  ASSUME NEW S, NEW F \in Seq(S), F # << >>, NEW h \in S
  PROVE  LET G == [F EXCEPT ![1] = h]
         IN  G \in Seq(S) /\ Len(G) = Len(F) /\ Len(F) >= 1 /\ G[1] = h /\ \A i \in 2..Len(F) : G[i] = F[i]
OBVIOUS

\* Other frames, and nothing else.
LEMMA WithFrames ==
  ASSUME NEW l, IsLoad(l), NEW G
  PROVE  LET k == [l EXCEPT !.frames = G] IN IsLoad(k) /\ k.frames = G /\ OthersStay(l, k)
BY DEF IsLoad, OthersStay

\* The topmost frame goes on to the next step.
LEMMA GoOnIs ==
  ASSUME NEW l, IsLoad(l), l.frames \in Seq(Frames), l.frames # << >>,
         StepBehind(l.frames[1].step) \in StepNames
  PROVE  GetsTo(l, GoOn(l), StepBehind(l.frames[1].step), 1)
<1> DEFINE F == l.frames
           step == StepBehind(F[1].step)
           h == [file |-> F[1].file, step |-> step, at |-> 1]
           G == [F EXCEPT ![1] = h]
<1>1. GoOn(l) = [l EXCEPT !.frames = G]
  BY DEF GoOn
<1>2. F[1] \in Frames
  OBVIOUS
<1>5. h \in Frames /\ h.file = F[1].file /\ h.step = step /\ h.at = 1
  BY <1>2 DEF Frames
<1> HIDE DEF h
<1>6. FramesGetTo(F, G, step, 1)
  <2> HIDE DEF step
  <2>1. G \in Seq(Frames) /\ Len(G) = Len(F) /\ Len(F) >= 1 /\ G[1] = h /\ \A i \in 2..Len(F) : G[i] = F[i]
    BY <1>5, OtherHead
  <2> HIDE DEF G, F
  <2> QED BY <1>5, <2>1 DEF FramesGetTo
<1> HIDE DEF G, step
<1>7. IsLoad(GoOn(l)) /\ GoOn(l).frames = G /\ OthersStay(l, GoOn(l))
  BY <1>1, WithFrames
<1> QED BY <1>6, <1>7 DEF GetsTo, step

\* The topmost frame takes its step once more, for the next item.
LEMMA AgainIs ==
  ASSUME NEW l, IsLoad(l), l.frames \in Seq(Frames), l.frames # << >>
  PROVE  GetsTo(l, Again(l), l.frames[1].step, l.frames[1].at + 1)
<1> DEFINE F == l.frames
           n == F[1].at + 1
           h == [F[1] EXCEPT !.at = @ + 1]
           G == [F EXCEPT ![1] = h]
<1>1. Again(l) = [l EXCEPT !.frames = G]
  BY DEF Again
<1>2. F[1] \in Frames
  OBVIOUS
<1>3. h = [file |-> F[1].file, step |-> F[1].step, at |-> n] /\ n \in Nat \ {0}
  BY <1>2 DEF Frames
<1>4. h \in Frames /\ h.file = F[1].file /\ h.step = F[1].step /\ h.at = n
  <2> HIDE DEF h, n
  <2> QED BY <1>2, <1>3 DEF Frames
<1> HIDE DEF h
<1>5. FramesGetTo(F, G, F[1].step, n)
  <2>1. G \in Seq(Frames) /\ Len(G) = Len(F) /\ Len(F) >= 1 /\ G[1] = h /\ \A i \in 2..Len(F) : G[i] = F[i]
    BY <1>4, OtherHead
  <2> HIDE DEF G, F
  <2> QED BY <1>4, <2>1 DEF FramesGetTo
<1> HIDE DEF G
<1>6. IsLoad(Again(l)) /\ Again(l).frames = G /\ OthersStay(l, Again(l))
  BY <1>1, WithFrames
<1> QED BY <1>5, <1>6 DEF GetsTo

\* A file that is known, and the files themselves.
LEMMA FramesGetOn ==
  ASSUME FramesStand, launch' = launch, load'.files = load.files,
         NEW step, NEW at, FramesGetTo(load.frames, load'.frames, step, at),
         TopFrame.step # "header", step # "header"
  PROVE  FramesStand'
<1> DEFINE F == load.frames
           G == load'.frames
<1>1. Len(G) = Len(F) /\ Len(F) \in Nat /\ Len(F) >= 1 /\ 1 \in 1..Len(F)
  BY DEF FramesGetTo, FramesStand
<1>2. \A i \in 1..Len(F) : G[i].file = F[i].file /\ (G[i].step = "header" <=> F[i].step = "header")
  <2>1. TAKE i \in 1..Len(F)
  <2>2. CASE i = 1
    BY <2>2 DEF FramesGetTo, TopFrame
  <2>3. CASE i # 1
    BY <1>1, <2>3 DEF FramesGetTo
  <2> QED BY <2>2, <2>3
<1>3. \A i \in 2..Len(F) : G[i] = F[i]
  BY DEF FramesGetTo
<1>4. G \in Seq(Frames')
  BY DEF FramesGetTo, Frames
<1> DEFINE Known(f) == \E k \in 1..Len(load.files) : load.files[k] = f
<1>5. \A i \in 1..Len(F) : F[i].step = "header" <=> ~Known(F[i].file)
  BY DEF FramesStand, IsKnown
<1>6. \A i \in 2..Len(F) : F[i].step = "needed"
  BY DEF FramesStand
<1>7. \A i, j \in 1..Len(F) : i # j => F[i].file # F[j].file
  BY DEF FramesStand
<1> HIDE DEF F, G, Known
<1>8. \A i \in 2..Len(G) : G[i].step = "needed"
  BY <1>1, <1>3, <1>6
<1>9. \A i \in 1..Len(G) : G[i].step = "header" <=> ~Known(G[i].file)
  <2>1. TAKE i \in 1..Len(G)
  <2>2. i \in 1..Len(F)
    BY <1>1
  <2>3. G[i].file = F[i].file /\ (G[i].step = "header" <=> F[i].step = "header")
    BY <1>2, <2>2
  <2> QED BY <1>5, <2>2, <2>3
<1>10. \A i, j \in 1..Len(G) : i # j => G[i].file # G[j].file
  BY <1>1, <1>2, <1>7
<1>11. /\ G \in Seq(Frames')
       /\ \A i \in 2..Len(G) : G[i].step = "needed"
       /\ \A i \in 1..Len(G) : G[i].step = "header" <=> ~Known(G[i].file)
       /\ \A i, j \in 1..Len(G) : i # j => G[i].file # G[j].file
       => FramesStand'
  BY DEF FramesStand, G, Known, IsKnown
<1> QED BY <1>4, <1>8, <1>9, <1>10, <1>11

\* When a frame gets on, the files of the frames are the same.
LEMMA TlsStaysKnown ==
  ASSUME NEW files, NEW F, NEW G, NEW t, NEW u, TlsIsKnown(files, F, t), DOMAIN t \subseteq DOMAIN u,
         NEW step, NEW at, FramesGetTo(F, G, step, at)
  PROVE  TlsIsKnown(files, G, u)
<1>1. Len(G) = Len(F) /\ Len(F) \in Nat
  BY DEF FramesGetTo
<1>2. \A j \in 1..Len(F) : j \in 1..Len(G) /\ G[j].file = F[j].file
  <2>1. \A j \in 1..Len(F) : j = 1 \/ j \in 2..Len(F)
    BY <1>1
  <2> QED BY <1>1, <2>1 DEF FramesGetTo
<1> QED BY <1>2 DEF TlsIsKnown

\* What no step has touched stands: the files, ...
LEMMA FilesRest ==
  ASSUME FilesStand, launch' = launch, load'.files = load.files
  PROVE  FilesStand'
BY DEF FilesStand, IsInjectiveSeq

\* ... the tables, ...
LEMMA TablesRest ==
  ASSUME TablesStand, load'.files = load.files, load'.symbols = load.symbols, load'.needs = load.needs,
         load'.skipped = load.skipped
  PROVE  TablesStand'
BY DEF TablesStand, TablesAreOfLoadedFiles, IsKnown

\* ... where segments went, ...
LEMMA FixesRest ==
  ASSUME FixesStand, launch' = launch, load'.fixes = load.fixes, \A f : IsKnown(f) => IsKnown(f)'
  PROVE  FixesStand'
<1>1. ASSUME NEW f \in DOMAIN load.fixes
      PROVE  /\ IsKnown(f)' /\ AreFixes(load'.fixes, f)
             /\ \A i \in 1..Len(File(f).segments) :
                  File(f).segments[i].start \in DOMAIN load.fixes[f] => IsMovedInSteps(f, i)'
  <2>1. /\ IsKnown(f) /\ AreFixes(load.fixes, f)
        /\ \A i \in 1..Len(File(f).segments) :
             File(f).segments[i].start \in DOMAIN load.fixes[f] => IsMovedInSteps(f, i)
    BY DEF FixesStand
  <2>2. \A i : IsMovedInSteps(f, i)' <=> IsMovedInSteps(f, i)
    BY DEF IsMovedInSteps, IsInSteps, IsPlacedAsIs, IsRoot, IsLibrary, File
  <2> QED BY <2>1, <2>2
<1>2. \A f : File(f)' = File(f)
  BY DEF File
<1> QED BY <1>1, <1>2 DEF FixesStand

\* ... and the distances between them.
LEMMA LibrariesRest ==
  ASSUME LibrariesStayInOnePiece, launch' = launch, load'.fixes = load.fixes
  PROVE  LibrariesStayInOnePiece'
<1>1. ASSUME NEW f \in DOMAIN load.fixes, NEW i \in 2..Len(File(f).segments),
             File(f).segments[i].start \in DOMAIN load.fixes[f], IsClose(f, i)
      PROVE  Moved(f, i)' = Moved(f, i - 1)'
  <2>1. Moved(f, i) = Moved(f, i - 1)
    BY <1>1 DEF LibrariesStayInOnePiece
  <2> QED BY <2>1 DEF Moved, File
<1>2. \A f : File(f)' = File(f)
  BY DEF File
<1>3. \A f, i : IsClose(f, i)' <=> IsClose(f, i)
  BY DEF IsClose, File
<1> QED BY <1>1, <1>2, <1>3 DEF LibrariesStayInOnePiece

\* A frame that does not enter segments has no place for the next of them.
LEMMA LastRests ==
  ASSUME load'.frames[1].step # "segments"
  PROVE  LastStands'
BY DEF LastStands, TopFrame

\* Where the tables stay as they are, whatever becomes of the error.
LEMMA TablesRestKeep ==
  ASSUME LoaderInv, launch' = launch, IsLoad(load'), load'.error \in LoadErrors,
         load'.frames = load.frames, load'.files = load.files, load'.sections = load.sections,
         load'.fixes = load.fixes, load'.symbols = load.symbols, load'.needs = load.needs,
         load'.skipped = load.skipped, load'.tls = load.tls
  PROVE  LoaderInv'
<1>1. \A f : IsKnown(f)' <=> IsKnown(f)
  BY DEF IsKnown
<1>2. FramesStand'
  <2>1. Frames' = Frames
    BY DEF Frames
  <2> QED BY <1>1, <2>1 DEF FramesStand, LoaderInv
<1>3. FilesStand' /\ TablesStand' /\ FixesStand' /\ LibrariesStayInOnePiece'
  BY <1>1, FilesRest, TablesRest, FixesRest, LibrariesRest DEF LoaderInv
<1>4. TlsStands'
  BY DEF TlsStands, LoaderInv
<1>5. LastStands'
  BY DEF LastStands, LoaderInv, TopFrame, IsPlacedAsIs, IsRoot, IsLibrary, File, Starts
<1> QED BY <1>2, <1>3, <1>4, <1>5 DEF LoaderInv

\* A step that is refused changes the error only.
LEMMA RefusalKeeps ==
  ASSUME LoaderInv, launch' = launch, NEW reason \in LoadErrors, Refuse(reason)
  PROVE  LoaderInv'
<1>1. load' = [load EXCEPT !.error = reason]
  BY DEF Refuse
<1>2. IsLoad(load') /\ load'.error = reason
  BY <1>1 DEF LoaderInv, IsLoad
<1>3. /\ load'.frames = load.frames /\ load'.files = load.files /\ load'.sections = load.sections
      /\ load'.fixes = load.fixes /\ load'.symbols = load.symbols /\ load'.needs = load.needs
      /\ load'.skipped = load.skipped /\ load'.tls = load.tls
  BY <1>1 DEF LoaderInv, IsLoad
<1> QED BY <1>2, <1>3, TablesRestKeep

\* The tables that a step may change are sound; all else is as it was.
TablesAreSound(l) ==
  /\ IsLoad(l)
  /\ l.frames = load.frames /\ l.files = load.files /\ l.fixes = load.fixes /\ l.error = load.error
  /\ AreLaidOut(l.sections)
  /\ DOMAIN load.tls \subseteq DOMAIN l.tls
  /\ \A f \in DOMAIN l.tls : IsTls(l.tls[f])
  /\ \A s \in l.symbols : IsKnown(s.file) /\ s.value \in Nat
  /\ \A n \in l.needs : IsKnown(n[1]) /\ (IsKnown(n[2]) \/ n[2] \in l.skipped)

\* A frame gets on to a step in which no segments are entered.
LEMMA OnwardKeeps ==
  ASSUME LoaderInv, load.frames # << >>, launch' = launch, NEW l, TablesAreSound(l),
         NEW step \in StepNames \ {"header", "segments"}, NEW at, GetsTo(l, load', step, at),
         TopFrame.step # "header",
         step \in {"needed", "got", "plt", "end"} => TopFrame.file \in DOMAIN l.tls
  PROVE  LoaderInv'
<1>1. /\ IsLoad(load') /\ FramesGetTo(load.frames, load'.frames, step, at)
      /\ load'.files = load.files /\ load'.fixes = load.fixes /\ load'.error = load.error
      /\ load'.sections = l.sections /\ load'.tls = l.tls /\ load'.symbols = l.symbols
      /\ load'.needs = l.needs /\ load'.skipped = l.skipped
  BY DEF GetsTo, OthersStay, TablesAreSound
<1>2. \A f : IsKnown(f) => IsKnown(f)'
  BY <1>1 DEF IsKnown
<1>3. FramesStand'
  BY <1>1, FramesGetOn DEF LoaderInv
<1>4. FilesStand' /\ FixesStand' /\ LibrariesStayInOnePiece'
  BY <1>1, <1>2, FilesRest, FixesRest, LibrariesRest DEF LoaderInv
<1>5. LastStands'
  <2>1. load'.frames[1].step # "segments"
    BY <1>1 DEF FramesGetTo
  <2> QED BY <2>1, LastRests
<1>6. TlsStands'
  <2>1. \A i \in 1..Len(load.frames) :
          load'.frames[i].step \in {"needed", "got", "plt", "end"} => load'.frames[i].file \in DOMAIN l.tls
    <3>1. TAKE i \in 1..Len(load.frames)
    <3>2. CASE i = 1
      BY <1>1, <3>2 DEF FramesGetTo, TopFrame
    <3>3. CASE i # 1
      <4>1. load'.frames[i] = load.frames[i]
        BY <1>1, <3>3 DEF FramesGetTo, FramesStand, LoaderInv
      <4>2. load.frames[i].step \in {"needed", "got", "plt", "end"} => load.frames[i].file \in DOMAIN load.tls
        BY DEF TlsStands, LoaderInv
      <4> QED BY <4>1, <4>2 DEF TablesAreSound
    <3> QED BY <3>2, <3>3
  <2>2. Len(load'.frames) = Len(load.frames)
    BY <1>1 DEF FramesGetTo
  <2>3. TlsIsKnown(load.files, load'.frames, l.tls)
    <3>1. TlsIsKnown(load.files, load.frames, load.tls) /\ DOMAIN load.tls \subseteq DOMAIN l.tls
      BY DEF TlsStands, LoaderInv, TablesAreSound
    <3> QED BY <1>1, <3>1, TlsStaysKnown
  <2> QED BY <1>1, <2>1, <2>2, <2>3 DEF TlsStands, TablesAreSound
<1>7. TablesStand'
  <2>1. /\ \A s \in l.symbols : IsKnown(s.file)' /\ s.value \in Nat
        /\ \A n \in l.needs : IsKnown(n[1])' /\ (IsKnown(n[2])' \/ n[2] \in l.skipped)
    BY <1>2 DEF TablesAreSound
  <2> QED BY <1>1, <2>1 DEF TablesStand, TablesAreOfLoadedFiles
<1>8. launch' \in Launches /\ load'.error \in LoadErrors
  BY <1>1 DEF LoaderInv
<1> QED BY <1>1, <1>3, <1>4, <1>5, <1>6, <1>7, <1>8 DEF LoaderInv, TablesAreSound

\* What a step finds.
LEMMA AtStep ==
  ASSUME LoaderInv, NEW step, At(step)
  PROVE  /\ load.frames # << >> /\ load.frames \in Seq(Frames) /\ 1 \in 1..Len(load.frames)
         /\ TopFrame \in Frames /\ TopFrame.step = step /\ TopFrame.file \in DOMAIN launch.disk
         /\ TopFrame.at \in Nat \ {0} /\ IsElf(File(TopFrame.file))
         /\ step # "header" => IsKnown(TopFrame.file)
<1>1. load.frames # << >> /\ load.frames \in Seq(Frames) /\ TopFrame.step = step
  BY DEF At, Loading, LoaderInv, FramesStand
<1>2. 1 \in 1..Len(load.frames) /\ TopFrame \in Frames
  BY <1>1 DEF TopFrame
<1>3. TopFrame.file \in DOMAIN launch.disk /\ TopFrame.at \in Nat \ {0}
  BY <1>2 DEF Frames
<1>4. IsElf(File(TopFrame.file))
  BY <1>3, FileIsElf DEF LoaderInv
<1>5. step # "header" => IsKnown(TopFrame.file)
  BY <1>1, <1>2 DEF LoaderInv, FramesStand, TopFrame
<1> QED BY <1>1, <1>2, <1>3, <1>4, <1>5

\* Every step but the first, the second and the last goes on like this, ...
LEMMA GoingOnKeeps ==
  ASSUME LoaderInv, launch' = launch, NEW step \in StepNames \ {"header", "end"}, At(step),
         NEW l, TablesAreSound(l), load' = GoOn(l), step = "tls" => TopFrame.file \in DOMAIN l.tls
  PROVE  LoaderInv'
<1>1. l.frames = load.frames /\ IsLoad(l) /\ l.frames \in Seq(Frames) /\ l.frames # << >>
      /\ l.frames[1] = TopFrame /\ TopFrame.step = step
  BY AtStep DEF TablesAreSound, TopFrame
<1>2. StepBehind(step) \in StepNames \ {"header", "segments"}
  BY StepsAre DEF StepNames
<1>3. GetsTo(l, load', StepBehind(step), 1)
  BY <1>1, <1>2, GoOnIs
<1>4. StepBehind(step) \in {"needed", "got", "plt", "end"} => TopFrame.file \in DOMAIN l.tls
  <2>1. step \in {"needed", "got", "plt"} => TopFrame.file \in DOMAIN load.tls
    BY <1>1, AtStep DEF LoaderInv, TlsStands, TopFrame
  <2>2. step \in {"needed", "got", "plt"} => TopFrame.file \in DOMAIN l.tls
    BY <2>1 DEF TablesAreSound
  <2> QED BY <2>2, StepsAre DEF StepNames
<1> QED BY <1>1, <1>2, <1>3, <1>4, OnwardKeeps

\* ... and is taken again like this.
LEMMA AgainKeeps ==
  ASSUME LoaderInv, launch' = launch, NEW step \in StepNames \ {"header", "segments", "end"}, At(step),
         NEW l, TablesAreSound(l), load' = Again(l)
  PROVE  LoaderInv'
<1>1. l.frames = load.frames /\ IsLoad(l) /\ l.frames \in Seq(Frames) /\ l.frames # << >>
      /\ l.frames[1] = TopFrame /\ TopFrame.step = step
  BY AtStep DEF TablesAreSound, TopFrame
<1>2. GetsTo(l, load', step, l.frames[1].at + 1)
  BY <1>1, AgainIs
<1>3. step \in {"needed", "got", "plt", "end"} => TopFrame.file \in DOMAIN l.tls
  <2>1. step \in {"needed", "got", "plt", "end"} => TopFrame.file \in DOMAIN load.tls
    BY <1>1, AtStep DEF LoaderInv, TlsStands, TopFrame
  <2> QED BY <2>1 DEF TablesAreSound
<1> QED BY <1>1, <1>2, <1>3, OnwardKeeps

\* The loader's tables are sound as they are.
LEMMA TablesAsTheyAre ==
  ASSUME LoaderInv
  PROVE  TablesAreSound(load)
BY DEF LoaderInv, TablesAreSound, TlsStands, TablesStand, TablesAreOfLoadedFiles

-----------------------------------------------------------------------------
(* The steps *)

\* The entry point is checked.
LEMMA CheckEntryKeeps ==
  ASSUME LoaderInv, launch' = launch, CheckEntry
  PROVE  LoaderInv'
<1> DEFINE f == TopFrame.file
           entry == IF IsLibrary(f) THEN FixedHere(File(f).entry) ELSE File(f).entry
           e == IF IsRoot(f) THEN entry ELSE load.entry
           l == [load EXCEPT !.entry = e]
<1>1. CASE \E reason \in LoadErrors : Refuse(reason)
  BY <1>1, RefusalKeeps
<1>2. CASE load' = GoOn(l)
  <2>1. TablesAreSound(l)
    <3> HIDE DEF e
    <3> QED BY TablesAsTheyAre DEF TablesAreSound, IsLoad
  <2>2. At("entry")
    BY DEF CheckEntry
  <2> HIDE DEF l
  <2> QED BY <1>2, <2>1, <2>2, GoingOnKeeps DEF StepNames
<1>3. \/ load' = GoOn(l)
      \/ \E reason \in {"assertion", "entry", "strings"} : Refuse(reason)
  BY DEF CheckEntry, Abort
<1> QED BY <1>1, <1>2, <1>3 DEF LoadErrors

\* The functions that initialise and finalise a file are entered.
LEMMA EnterFunctionsKeeps ==
  ASSUME LoaderInv, launch' = launch, EnterFunctions
  PROVE  LoaderInv'
<1>1. At("functions")
  BY DEF EnterFunctions
<1>2. CASE Abort
  BY <1>2, RefusalKeeps DEF Abort, LoadErrors
<1>3. CASE ~Abort
  <2>1. PICK table : load' = GoOn([load EXCEPT !.functions = table @@ @])
    BY <1>3 DEF EnterFunctions
  <2> DEFINE functions == table @@ load.functions
             l == [load EXCEPT !.functions = functions]
  <2>2. load' = GoOn(l)
    BY <2>1
  <2>3. TablesAreSound(l)
    <3> HIDE DEF functions
    <3> QED BY TablesAsTheyAre DEF TablesAreSound, IsLoad
  <2> HIDE DEF l
  <2> QED BY <1>1, <2>2, <2>3, GoingOnKeeps DEF StepNames
<1> QED BY <1>2, <1>3

\* The symbols of a file are entered.
LEMMA EnterSymbolsKeeps ==
  ASSUME LoaderInv, launch' = launch, EnterSymbols
  PROVE  LoaderInv'
<1> DEFINE f == TopFrame.file
           symbols == File(f).symbols
           numbers == {i \in SymbolTable(f).range : symbols[i + 1].bind # "local"}
           Entry(i) == [file |-> f, index |-> i, id |-> symbols[i + 1].id, type |-> symbols[i + 1].type,
                        value |-> symbols[i + 1].value,
                        visible |-> i \in SymbolTable(f).listed /\ symbols[i + 1].type # "UNKNOWN"]
           entered == load.symbols \cup {Entry(i) : i \in numbers}
           l == [load EXCEPT !.symbols = entered]
<1>1. At("symbols")
  BY DEF EnterSymbols
<1>2. CASE \E reason \in LoadErrors : Refuse(reason)
  BY <1>2, RefusalKeeps
<1>3. CASE load' = GoOn(load)
  BY <1>1, <1>3, TablesAsTheyAre, GoingOnKeeps DEF StepNames
<1>4. ASSUME load' = GoOn(l), symbols # << >>, File(f).hash.kind # "none",
             File(f).hash.kind = "gnu" => BucketsAreFine(File(f).hash)
      PROVE  LoaderInv'
  <2>1. IsElf(File(f)) /\ IsKnown(f)
    BY <1>1, AtStep
  <2>2. /\ Len(symbols) \in Nat /\ Len(symbols) > 0 /\ IsHashOf(File(f).hash, File(f))
        /\ \A i \in 1..Len(symbols) : symbols[i].value \in Nat
    BY <1>4, <2>1 DEF IsElf
  <2>3. SymbolTable(f).range \subseteq 0..(Len(symbols) - 1)
    BY <1>4, <2>2, RangeIsOfSymbols
  <2>4. \A i \in numbers : Entry(i).file = f /\ Entry(i).value \in Nat
    <3>1. TAKE i \in numbers
    <3>2. i \in 0..(Len(symbols) - 1)
      BY <2>3
    <3>3. i + 1 \in 1..Len(symbols)
      BY <2>2, <3>2
    <3> QED BY <2>2, <3>3
  <2>5. \A s \in entered : IsKnown(s.file) /\ s.value \in Nat
    BY <2>1, <2>4, TablesAsTheyAre DEF TablesAreSound
  <2>6. TablesAreSound(l)
    <3> HIDE DEF entered
    <3> QED BY <2>5, TablesAsTheyAre DEF TablesAreSound, IsLoad
  <2> HIDE DEF l
  <2> QED BY <1>1, <1>4, <2>6, GoingOnKeeps DEF StepNames
<1>5. \/ load' = GoOn(load)
      \/ \E reason \in {"assertion", "hash", "bind"} : Refuse(reason)
      \/ /\ load' = GoOn(l) /\ symbols # << >> /\ File(f).hash.kind # "none"
         /\ File(f).hash.kind = "gnu" => BucketsAreFine(File(f).hash)
  BY DEF EnterSymbols, Abort
<1> QED BY <1>2, <1>3, <1>4, <1>5 DEF LoadErrors

\* The thread-local storage of a file is entered.
LEMMA EnterTlsKeeps ==
  ASSUME LoaderInv, launch' = launch, EnterTls
  PROVE  LoaderInv'
<1> DEFINE f == TopFrame.file
           tls == File(f).tls
           start == FixedHere(tls.start)
           moved == [tls EXCEPT !.start = start, !.image = start + (@ - tls.start),
                                !.end = start + (@ - tls.start)]
<1>1. At("tls")
  BY DEF EnterTls
<1>2. CASE Abort
  BY <1>2, RefusalKeeps DEF Abort, LoadErrors
<1>3. ASSUME NEW info, IsTls(info),
             load' = GoOn([load EXCEPT !.tls = (f :> info) @@ @])
      PROVE  LoaderInv'
  <2> DEFINE table == (f :> info) @@ load.tls
             l == [load EXCEPT !.tls = table]
  <2>1. load' = GoOn(l)
    BY <1>3
  <2>2. DOMAIN table = {f} \cup DOMAIN load.tls /\ table[f] = info
    BY DEF :>, @@
  <2>3. \A g \in DOMAIN load.tls \ {f} : table[g] = load.tls[g]
    BY DEF :>, @@
  <2> HIDE DEF table
  <2>4. \A g \in DOMAIN table : IsTls(table[g])
    <3>1. \A g \in DOMAIN load.tls : IsTls(load.tls[g])
      BY DEF LoaderInv, TlsStands
    <3> HIDE DEF f
    <3> QED BY <1>3, <2>2, <2>3, <3>1
  <2>5. TablesAreSound(l) /\ l.tls = table
    BY <2>2, <2>4, TablesAsTheyAre DEF TablesAreSound, IsLoad
  <2>6. f \in DOMAIN l.tls
    BY <2>2, <2>5
  <2> HIDE DEF l
  <2> QED BY <1>1, <2>1, <2>5, <2>6, GoingOnKeeps DEF StepNames
<1>4. IsTls(NoTls) /\ (tls # NoTls /\ start # NoAddress => IsTls(moved))
  <2> SUFFICES ASSUME tls # NoTls
               PROVE  {moved.start, moved.image, moved.end} \subseteq Int /\ moved.align \in Nat \ {0}
    BY DEF IsTls
  <2>1. tls \in [start : Nat, image : Nat, end : Nat, align : Nat \ {0}, static : BOOLEAN]
    BY <1>1, AtStep DEF IsElf
  <2>2. AreFixes(load.fixes, f)
    BY DEF LoaderInv, FixesStand, AreFixes
  <2>3. start \in Int
    BY <2>1, <2>2, FixedIsNumber DEF FixedHere
  <2> QED BY <2>1, <2>3
<1>5. \/ Abort
      \/ load' = GoOn([load EXCEPT !.tls = (f :> NoTls) @@ @])
      \/ tls # NoTls /\ start # NoAddress /\ load' = GoOn([load EXCEPT !.tls = (f :> moved) @@ @])
  BY DEF EnterTls
<1> HIDE DEF moved
<1> QED BY <1>2, <1>3, <1>4, <1>5

\* Every frame below a step of its own waits, for a file that is known.
LEMMA OthersWait ==
  ASSUME LoaderInv
  PROVE  \A i \in 2..Len(load.frames) :
           /\ load.frames[i] \in Frames /\ load.frames[i].step = "needed"
           /\ IsKnown(load.frames[i].file) /\ load.frames[i].file \in DOMAIN load.tls
<1>1. TAKE i \in 2..Len(load.frames)
<1>2. i \in 1..Len(load.frames) /\ load.frames \in Seq(Frames)
  BY DEF LoaderInv, FramesStand
<1>3. load.frames[i] \in Frames /\ load.frames[i].step = "needed"
  BY <1>2 DEF LoaderInv, FramesStand
<1>4. IsKnown(load.frames[i].file)
  BY <1>2, <1>3 DEF LoaderInv, FramesStand
<1>5. load.frames[i].file \in DOMAIN load.tls
  BY <1>2, <1>3 DEF LoaderInv, TlsStands
<1> QED BY <1>3, <1>4, <1>5

\* Other frames, when no file is opened and no table changes.
LEMMA FramesChange ==
  ASSUME LoaderInv, launch' = launch, NEW G, load' = [load EXCEPT !.frames = G], G \in Seq(Frames),
         \A i \in 2..Len(G) : G[i].step = "needed",
         \A i \in 1..Len(G) : G[i].step = "header" <=> ~IsKnown(G[i].file),
         \A i, j \in 1..Len(G) : i # j => G[i].file # G[j].file,
         \A i \in 1..Len(G) : G[i].step \in {"needed", "got", "plt", "end"} => G[i].file \in DOMAIN load.tls,
         TlsIsKnown(load.files, G, load.tls),
         G # << >> => G[1].step # "segments"
  PROVE  LoaderInv'
<1>1. IsLoad(load') /\ load'.frames = G /\ OthersStay(load, load')
  BY WithFrames DEF LoaderInv
<1>2. /\ load'.files = load.files /\ load'.sections = load.sections /\ load'.fixes = load.fixes
      /\ load'.symbols = load.symbols /\ load'.needs = load.needs /\ load'.skipped = load.skipped
      /\ load'.tls = load.tls /\ load'.error = load.error
  BY <1>1 DEF OthersStay
<1>3. \A f : IsKnown(f)' <=> \E i \in 1..Len(load.files) : load.files[i] = f
  BY <1>2 DEF IsKnown
<1>4. FramesStand'
  <2>1. Frames' = Frames
    BY DEF Frames
  <2>2. \A i \in 1..Len(G) : G[i].step = "header" <=> ~\E k \in 1..Len(load.files) : load.files[k] = G[i].file
    BY DEF IsKnown
  <2> QED BY <1>1, <1>2, <2>1, <2>2 DEF FramesStand, IsKnown
<1>5. FilesStand' /\ TablesStand' /\ FixesStand' /\ LibrariesStayInOnePiece'
  <2>1. \A f : IsKnown(f) => IsKnown(f)'
    BY <1>3 DEF IsKnown
  <2> QED BY <1>2, <2>1, FilesRest, TablesRest, FixesRest, LibrariesRest DEF LoaderInv
<1>6. TlsStands'
  BY <1>1, <1>2 DEF TlsStands, LoaderInv
<1>7. LastStands'
  BY <1>1 DEF LastStands, TopFrame
<1> QED BY <1>1, <1>2, <1>4, <1>5, <1>6, <1>7 DEF LoaderInv

\* The next file that is needed is looked at.
LEMMA LoadNeededKeeps ==
  ASSUME LoaderInv, launch' = launch, LoadNeeded
  PROVE  LoaderInv'
<1> DEFINE f == TopFrame.file
           name == File(f).needed[TopFrame.at]
<1>1. At("needed") /\ IsKnown(f)
  BY AtStep DEF LoadNeeded
<1>2. CASE load' = GoOn(load)
  BY <1>1, <1>2, TablesAsTheyAre, GoingOnKeeps DEF StepNames
<1>3. ASSUME NEW l, TablesAreSound(l), IsKnown(name) \/ name \in l.skipped,
             load' = Again([l EXCEPT !.needs = @ \cup {<<f, name>>}])
      PROVE  LoaderInv'
  <2> DEFINE needs == l.needs \cup {<<f, name>>}
             l1 == [l EXCEPT !.needs = needs]
  <2>1. \A n \in needs : IsKnown(n[1]) /\ (IsKnown(n[2]) \/ n[2] \in l.skipped)
    BY <1>1, <1>3 DEF TablesAreSound
  <2>2. TablesAreSound(l1)
    <3> HIDE DEF needs
    <3> QED BY <1>3, <2>1 DEF TablesAreSound, IsLoad
  <2>3. load' = Again(l1)
    BY <1>3
  <2> HIDE DEF l1
  <2> QED BY <1>1, <2>2, <2>3, AgainKeeps DEF StepNames
<1>4. ASSUME name \in DOMAIN launch.disk, ~IsKnown(name),
             load' = [load EXCEPT !.frames = <<NewFrame(name)>> \o @]
      PROVE  LoaderInv'
  <2> DEFINE F == load.frames
             new == NewFrame(name)
             G == <<new>> \o F
  <2>1. /\ F \in Seq(Frames) /\ Len(F) \in Nat
        /\ \A i \in 1..Len(F) : F[i].step = "needed" /\ IsKnown(F[i].file) /\ F[i].file \in DOMAIN load.tls
        /\ \A i, j \in 1..Len(F) : i # j => F[i].file # F[j].file
    <3>1. F \in Seq(Frames) /\ Len(F) \in Nat /\ 1 \in 1..Len(F) /\ F[1].step = "needed" /\ IsKnown(F[1].file)
      BY <1>1, AtStep DEF TopFrame
    <3>2. F[1].file \in DOMAIN load.tls
      BY <3>1 DEF LoaderInv, TlsStands
    <3>3. \A i, j \in 1..Len(F) : i # j => F[i].file # F[j].file
      BY DEF LoaderInv, FramesStand
    <3> QED BY <3>1, <3>2, <3>3, OthersWait
  <2>2. new \in Frames /\ new.file = name /\ new.step = "header"
    BY <1>4 DEF NewFrame, Frames, StepNames
  <2> HIDE DEF F, new
  <2>3. G \in Seq(Frames) /\ Len(G) = Len(F) + 1 /\ G[1] = new /\ \A i \in 2..Len(G) : G[i] = F[i - 1]
    BY <2>1, <2>2
  <2>4. load' = [load EXCEPT !.frames = G]
    BY <1>4 DEF F, new
  <2> HIDE DEF G
  <2>5. /\ \A i \in 2..Len(G) : G[i].step = "needed"
        /\ \A i \in 1..Len(G) : G[i].step = "header" <=> ~IsKnown(G[i].file)
        /\ \A i \in 1..Len(G) : G[i].step \in {"needed", "got", "plt", "end"} => G[i].file \in DOMAIN load.tls
    <3>1. \A i \in 2..Len(G) : G[i].step = "needed" /\ IsKnown(G[i].file) /\ G[i].file \in DOMAIN load.tls
      BY <2>1, <2>3
    <3>2. \A i \in 1..Len(G) : i = 1 \/ i \in 2..Len(G)
      BY <2>1, <2>3
    <3> QED BY <1>4, <2>2, <2>3, <3>1, <3>2
  <2>6. \A i, j \in 1..Len(G) : i # j => G[i].file # G[j].file
    <3>1. TAKE i, j \in 1..Len(G)
    <3>2. \A k \in 2..Len(G) : G[k].file # name
      <4>1. \A k \in 2..Len(G) : IsKnown(G[k].file)
        BY <2>1, <2>3
      <4> QED BY <1>4, <4>1
    <3>3. CASE i = 1 \/ j = 1
      BY <2>1, <2>2, <2>3, <3>2, <3>3
    <3>4. CASE i # 1 /\ j # 1
      <4>1. G[i] = F[i - 1] /\ G[j] = F[j - 1] /\ i - 1 \in 1..Len(F) /\ j - 1 \in 1..Len(F)
        BY <2>1, <2>3, <3>4
      <4> QED BY <2>1, <4>1
    <3> QED BY <3>3, <3>4
  <2>7. G[1].step # "segments"
    BY <2>2, <2>3
  <2>8. TlsIsKnown(load.files, G, load.tls)
    <3>1. TlsIsKnown(load.files, F, load.tls)
      BY DEF LoaderInv, TlsStands, F
    <3>2. \A j \in 1..Len(F) : j + 1 \in 1..Len(G) /\ G[j + 1] = F[j]
      <4>1. TAKE j \in 1..Len(F)
      <4>2. j + 1 \in 2..Len(G) /\ (j + 1) - 1 = j
        BY <2>1, <2>3
      <4>3. G[j + 1] = F[(j + 1) - 1]
        BY <2>3, <4>2
      <4> QED BY <4>2, <4>3
    <3>3. \A j \in 1..Len(F) : \E k \in 1..Len(G) : G[k].file = F[j].file
      BY <3>2
    <3> QED BY <3>1, <3>3 DEF TlsIsKnown
  <2> QED BY <2>3, <2>4, <2>5, <2>6, <2>7, <2>8, FramesChange
<1> DEFINE skipped == load.skipped \cup {name}
           skipping == [load EXCEPT !.skipped = skipped]
<1>5. TablesAreSound(skipping) /\ name \in skipping.skipped
  <2>1. load.skipped \subseteq skipped /\ name \in skipped
    OBVIOUS
  <2> HIDE DEF skipped
  <2> QED BY <2>1, TablesAsTheyAre DEF TablesAreSound, IsLoad
<1>6. \/ load' = GoOn(load)
      \/ load' = Again([skipping EXCEPT !.needs = @ \cup {<<f, name>>}])
      \/ IsKnown(name) /\ load' = Again([load EXCEPT !.needs = @ \cup {<<f, name>>}])
      \/ /\ name \in DOMAIN launch.disk /\ ~IsKnown(name)
         /\ load' = [load EXCEPT !.frames = <<NewFrame(name)>> \o @]
  BY DEF LoadNeeded
<1> HIDE DEF skipping
<1> QED BY <1>2, <1>3, <1>4, <1>5, <1>6, TablesAsTheyAre

\* A file is loaded, and the one that needs it goes on.
LEMMA FinishFileKeeps ==
  ASSUME LoaderInv, launch' = launch, FinishFile
  PROVE  LoaderInv'
<1> DEFINE F == load.frames
           G == Tail(F)
<1>1. F \in Seq(Frames) /\ F # << >>
  BY AtStep DEF FinishFile
<1>2. /\ \A i \in 2..Len(F) : F[i].step = "needed" /\ IsKnown(F[i].file) /\ F[i].file \in DOMAIN load.tls
      /\ \A i, j \in 1..Len(F) : i # j => F[i].file # F[j].file
  BY OthersWait DEF LoaderInv, FramesStand
<1>3. load' = [load EXCEPT !.frames = G]
  BY DEF FinishFile
<1> HIDE DEF F
<1>4. G \in Seq(Frames) /\ Len(F) = Len(G) + 1 /\ Len(G) \in Nat /\ \A i \in 1..Len(G) : G[i] = F[i + 1]
  BY <1>1
<1> HIDE DEF G
<1>5. \A i \in 1..Len(G) : G[i].step = "needed" /\ IsKnown(G[i].file) /\ G[i].file \in DOMAIN load.tls
  <2>1. TAKE i \in 1..Len(G)
  <2>2. i + 1 \in 2..Len(F) /\ G[i] = F[i + 1]
    BY <1>4
  <2> QED BY <1>2, <2>2
<1>6. \A i, j \in 1..Len(G) : i # j => G[i].file # G[j].file
  <2>1. TAKE i, j \in 1..Len(G)
  <2>2. i + 1 \in 1..Len(F) /\ G[i] = F[i + 1] /\ j + 1 \in 1..Len(F) /\ G[j] = F[j + 1]
    BY <1>4
  <2> QED BY <1>2, <2>2
<1>7. G # << >> => G[1].step # "segments"
  BY <1>4, <1>5
<1>8. \A i \in 2..Len(G) : G[i].step = "needed"
  BY <1>4, <1>5
<1>9. TlsIsKnown(load.files, G, load.tls)
  <2>1. TlsIsKnown(load.files, F, load.tls)
    BY DEF LoaderInv, TlsStands, F
  <2>2. F[1].file \in DOMAIN load.tls
    <3>1. 1 \in 1..Len(F) /\ F[1].step = "end"
      BY AtStep DEF FinishFile, TopFrame, F
    <3> QED BY <3>1 DEF LoaderInv, TlsStands, F
  <2>3. \A j \in 1..Len(F) : F[j].file \in DOMAIN load.tls
    <3>1. \A j \in 1..Len(F) : j = 1 \/ j \in 2..Len(F)
      BY <1>4
    <3> QED BY <1>2, <2>2, <3>1
  <2> QED BY <2>1, <2>3 DEF TlsIsKnown
<1> QED BY <1>3, <1>4, <1>5, <1>6, <1>7, <1>8, <1>9, FramesChange

\* A sequence with one more element.
LEMMA OneMore ==
  ASSUME NEW S, NEW s \in Seq(S), NEW x \in S
  PROVE  /\ Append(s, x) \in Seq(S) /\ Len(Append(s, x)) = Len(s) + 1 /\ Append(s, x)[Len(s) + 1] = x
         /\ \A i \in 1..Len(s) : Append(s, x)[i] = s[i]
OBVIOUS

\* The header of a file is read: from here on the file is known.
LEMMA ReadHeaderKeeps ==
  ASSUME LoaderInv, launch' = launch, ReadHeader
  PROVE  LoaderInv'
<1> DEFINE f == TopFrame.file
           files == Append(load.files, f)
           l == [load EXCEPT !.files = files]
           F == load.frames
           G == load'.frames
<1>1. CASE Refuse("header")
  BY <1>1, RefusalKeeps DEF LoadErrors
<1>2. CASE load' = GoOn(l)
  <2>1. /\ At("header") /\ F # << >> /\ F \in Seq(Frames) /\ F[1].file = f /\ F[1].step = "header"
        /\ 1 \in 1..Len(F) /\ Len(F) \in Nat /\ f \in DOMAIN launch.disk
    BY AtStep DEF ReadHeader, TopFrame
  <2>2. load.files \in Seq(DOMAIN launch.disk) /\ Len(load.files) \in Nat /\ IsInjectiveSeq(load.files)
    BY DEF LoaderInv, FilesStand
  <2>3. ~IsKnown(f)
    BY <2>1 DEF LoaderInv, FramesStand
  <2>4. /\ files \in Seq(DOMAIN launch.disk) /\ Len(files) = Len(load.files) + 1
        /\ files[Len(files)] = f /\ \A i \in 1..Len(load.files) : files[i] = load.files[i]
    <3> DEFINE s == load.files
    <3>1. s \in Seq(DOMAIN launch.disk) /\ f \in DOMAIN launch.disk
      BY <2>1, <2>2
    <3> HIDE DEF s, f
    <3>2. files = Append(s, f)
      BY DEF s
    <3> HIDE DEF files
    <3>3. /\ files \in Seq(DOMAIN launch.disk) /\ Len(files) = Len(s) + 1 /\ files[Len(s) + 1] = f
          /\ \A i \in 1..Len(s) : files[i] = s[i]
      BY <3>1, <3>2, OneMore
    <3> QED BY <3>3 DEF s
  <2>5. IsLoad(l) /\ l.frames = F /\ l.files = files /\ l.error = load.error /\ l.sections = load.sections
        /\ l.fixes = load.fixes /\ l.tls = load.tls /\ l.symbols = load.symbols
        /\ l.needs = load.needs /\ l.skipped = load.skipped
    <3> HIDE DEF files
    <3> QED BY DEF LoaderInv, IsLoad
  <2> HIDE DEF l
  <2>6. GetsTo(l, load', "segments", 1)
    <3>1. StepBehind(l.frames[1].step) = "segments" /\ "segments" \in StepNames
      BY <2>1, <2>5, StepsAre DEF StepNames
    <3> QED BY <1>2, <2>1, <2>5, <3>1, GoOnIs
  <2>7. /\ IsLoad(load') /\ FramesGetTo(F, G, "segments", 1)
        /\ load'.files = files /\ load'.error = load.error /\ load'.sections = load.sections
        /\ load'.fixes = load.fixes /\ load'.tls = load.tls /\ load'.symbols = load.symbols
        /\ load'.needs = load.needs /\ load'.skipped = load.skipped
    BY <2>5, <2>6 DEF GetsTo, OthersStay
  <2> DEFINE Known(g) == \E i \in 1..Len(files) : files[i] = g
  <2> HIDE DEF files
  <2>8. \A g : Known(g) <=> IsKnown(g) \/ g = f
    <3>1. ASSUME NEW g, Known(g) PROVE IsKnown(g) \/ g = f
      <4>1. PICK i \in 1..Len(files) : files[i] = g
        BY <3>1
      <4>2. i \in 1..Len(load.files) \/ i = Len(files)
        BY <2>2, <2>4
      <4> QED BY <2>4, <4>1, <4>2 DEF IsKnown
    <3>2. ASSUME NEW g, IsKnown(g) PROVE Known(g)
      <4>1. PICK i \in 1..Len(load.files) : load.files[i] = g
        BY <3>2 DEF IsKnown
      <4>2. i \in 1..Len(files) /\ files[i] = g
        BY <2>2, <2>4, <4>1
      <4> QED BY <4>2
    <3>3. Known(f)
      BY <2>2, <2>4
    <3> QED BY <3>1, <3>2, <3>3
  <2>9. \A g : IsKnown(g)' <=> \E i \in 1..Len(files) : files[i] = g
    BY <2>7 DEF IsKnown
  <2> HIDE DEF Known
  <2>10. FilesStand'
    <3>1. IsInjectiveSeq(files)
      <4>1. \A i \in 1..Len(load.files) : files[i] # f
        BY <2>3, <2>4 DEF IsKnown
      <4>2. \A i \in 1..Len(files) : i \in 1..Len(load.files) \/ i = Len(files)
        BY <2>2, <2>4
      <4> QED BY <2>2, <2>4, <4>1, <4>2 DEF IsInjectiveSeq
    <3> QED BY <2>4, <2>7, <3>1 DEF FilesStand
  <2>11. FramesStand'
    <3>1. /\ G \in Seq(Frames) /\ Len(G) = Len(F) /\ G[1].file = f /\ G[1].step = "segments"
          /\ \A i \in 2..Len(F) : G[i] = F[i]
      BY <2>1, <2>7 DEF FramesGetTo
    <3>2. Frames' = Frames
      BY DEF Frames
    <3>3. \A i \in 2..Len(F) : F[i].step = "needed" /\ IsKnown(F[i].file)
      BY OthersWait
    <3>4. \A i \in 1..Len(G) : G[i].step # "header" /\ Known(G[i].file)
      <4>1. \A i \in 1..Len(F) : i = 1 \/ i \in 2..Len(F)
        BY <2>1
      <4> QED BY <2>8, <3>1, <3>3, <4>1
    <3>5. \A i, j \in 1..Len(G) : i # j => G[i].file # G[j].file
      <4>1. \A i \in 1..Len(F) : G[i].file = F[i].file
        BY <2>1, <3>1
      <4>2. \A i, j \in 1..Len(F) : i # j => F[i].file # F[j].file
        BY DEF LoaderInv, FramesStand
      <4> QED BY <3>1, <4>1, <4>2
    <3>6. \A i \in 1..Len(G) : G[i].step = "header" <=> ~Known(G[i].file)
      BY <3>4
    <3>7. \A i \in 2..Len(G) : G[i].step = "needed"
      BY <3>1, <3>3
    <3> QED BY <2>7, <3>1, <3>2, <3>5, <3>6, <3>7 DEF FramesStand, IsKnown, Known
  <2>12. \A g : IsKnown(g) => IsKnown(g)'
    BY <2>8, <2>9 DEF Known
  <2>13. FixesStand' /\ LibrariesStayInOnePiece'
    BY <2>7, <2>12, FixesRest, LibrariesRest DEF LoaderInv
  <2>14. TablesStand'
    <3>1. /\ \A s \in load.symbols : IsKnown(s.file)' /\ s.value \in Nat
          /\ \A n \in load.needs : IsKnown(n[1])' /\ (IsKnown(n[2])' \/ n[2] \in load.skipped)
      BY <2>12 DEF LoaderInv, TablesStand, TablesAreOfLoadedFiles
    <3> QED BY <2>7, <3>1 DEF TablesStand, TablesAreOfLoadedFiles
  <2>15. TlsStands'
    <3>1. \A i \in 1..Len(G) : G[i].step \in {"needed", "got", "plt", "end"} => G[i].file \in DOMAIN load.tls
      <4>1. \A i \in 1..Len(F) : i = 1 \/ i \in 2..Len(F)
        BY <2>1
      <4> QED BY <2>7, <4>1, OthersWait DEF FramesGetTo
    <3>2. TlsIsKnown(files, G, load.tls)
      <4>1. TlsIsKnown(load.files, F, load.tls)
        BY DEF LoaderInv, TlsStands
      <4>2. \A j \in 1..Len(F) : j \in 1..Len(G) /\ G[j].file = F[j].file
        <5>1. \A j \in 1..Len(F) : j = 1 \/ j \in 2..Len(F)
          BY <2>1
        <5> QED BY <2>1, <2>7, <5>1 DEF FramesGetTo
      <4>3. ASSUME NEW i \in 1..Len(files)
            PROVE  files[i] \in DOMAIN load.tls \/ \E j \in 1..Len(G) : G[j].file = files[i]
        <5>1. CASE i = Len(files)
          BY <2>1, <2>4, <4>2, <5>1
        <5>2. CASE i # Len(files)
          <6>1. i \in 1..Len(load.files) /\ files[i] = load.files[i]
            BY <2>2, <2>4, <5>2
          <6> QED BY <4>1, <4>2, <6>1 DEF TlsIsKnown
        <5> QED BY <5>1, <5>2
      <4> QED BY <4>3 DEF TlsIsKnown
    <3> QED BY <2>7, <3>1, <3>2 DEF TlsStands, LoaderInv
  <2>16. LastStands'
    <3>1. G[1].file = f /\ G[1].at = 1
      BY <2>1, <2>7 DEF FramesGetTo
    <3>2. f \notin DOMAIN load.fixes
      BY <2>3 DEF LoaderInv, FixesStand
    <3>3. Len(File(f).segments) \in Nat
      BY <2>1, AtStep DEF IsElf
    <3> QED BY <2>7, <3>1, <3>2, <3>3 DEF LastStands, TopFrame, File
  <2> QED BY <2>7, <2>10, <2>11, <2>13, <2>14, <2>15, <2>16 DEF LoaderInv
<1>3. Refuse("header") \/ load' = GoOn(l)
  BY DEF ReadHeader
<1> QED BY <1>1, <1>2, <1>3

\* A file is numbered if it is known.
LEMMA ModuleIdIsNumber ==
  ASSUME LoaderInv, NEW f, IsKnown(f)
  PROVE  ModuleId(f) \in Int
<1>1. \E i \in 1..Len(load.files) : load.files[i] = f
  BY DEF IsKnown
<1>2. FileNumber(f) \in 1..Len(load.files)
  BY <1>1 DEF FileNumber
<1> QED BY <1>2 DEF ModuleId

\* What a relocation writes is nothing, which stops the loader, or eight bytes.
LEMMA RelocationWritesWord ==
  ASSUME LoaderInv, NEW f, IsKnown(f), f \in DOMAIN load.tls, f \in DOMAIN load.fixes, DOMAIN load.fixes[f] # {},
         NEW r, r.addend \in Int, NEW value \in RelocationValues(f, r), value # << >>
  PROVE  IsWord(value, 8)
<1>1. \A a \in SymbolAddresses(f, r.symbol) : a \in Int
  <2>1. \A s \in DefinitionsOf(f, r.symbol) : s \in load.symbols
    BY DEF DefinitionsOf
  <2>2. ASSUME NEW s \in load.symbols PROVE Fixed(load.fixes, s.file, s.value) \in Int
    <3>1. s.value \in Nat
      BY DEF LoaderInv, TablesStand
    <3>2. AreFixes(load.fixes, s.file)
      BY DEF LoaderInv, FixesStand, AreFixes
    <3> QED BY <3>1, <3>2, FixedIsNumber
  <2> QED BY <2>1, <2>2 DEF SymbolAddresses
<1>2. BaseOf(load.fixes, f) \in Nat
  <2>1. AreFixes(load.fixes, f)
    BY DEF LoaderInv, FixesStand
  <2> QED BY <2>1, BaseIsNumber
<1>3. load.tls[f] # NoTls => OffsetFromThread(f, r) \in Int
  BY DEF LoaderInv, TlsStands, IsTls, OffsetFromThread
<1>4. ModuleId(f) \in Int
  BY ModuleIdIsNumber
<1>5. \E v \in Int : value = LittleEndian(v)
  <2>1. CASE r.type = "64"
    <3>1. PICK a \in SymbolAddresses(f, r.symbol) : value = IF a = NoAddress THEN << >> ELSE LittleEndian(a + r.addend)
      BY <2>1 DEF RelocationValues
    <3>2. a + r.addend \in Int
      BY <1>1
    <3> QED BY <3>1, <3>2
  <2>2. CASE r.type \in {"COPY", "GLOB_DAT", "JUMP_SLOT"}
    <3>1. PICK a \in SymbolAddresses(f, r.symbol) : value = AddressWord(a)
      BY <2>2 DEF RelocationValues
    <3> QED BY <1>1, <3>1 DEF AddressWord
  <2>3. CASE r.type = "RELATIVE"
    <3>1. value = LittleEndian(BaseOf(load.fixes, f) + r.addend)
      BY <2>3 DEF RelocationValues
    <3> QED BY <1>2, <3>1
  <2>4. CASE r.type = "DTPMOD64"
    <3>1. value = LittleEndian(ModuleId(f))
      BY <2>4 DEF RelocationValues
    <3> QED BY <1>4, <3>1
  <2>5. CASE r.type = "TPOFF64" /\ load.tls[f] # NoTls
    <3>1. value = LittleEndian(OffsetFromThread(f, r))
      BY <2>5 DEF RelocationValues
    <3> QED BY <1>3, <2>5, <3>1
  <2>6. CASE /\ r.type # "64" /\ r.type \notin {"COPY", "GLOB_DAT", "JUMP_SLOT"} /\ r.type # "RELATIVE"
             /\ r.type # "DTPMOD64" /\ ~(r.type = "TPOFF64" /\ load.tls[f] # NoTls)
    <3>1. RelocationValues(f, r) = {}
      BY <2>6, Zenon DEF RelocationValues
    <3> QED BY <3>1
  <2> QED BY <2>1, <2>2, <2>3, <2>4, <2>5, <2>6
<1> QED BY <1>5, LittleEndianIsWord

\* A relocation is performed, or refused.
LEMMA RelocateKeeps ==
  ASSUME LoaderInv, launch' = launch, Relocate
  PROVE  LoaderInv'
<1> DEFINE f == TopFrame.file
           table == IF TopFrame.step = "got" THEN File(f).got ELSE File(f).plt
           r == table.relocations[TopFrame.at]
           place == FixedHere(r.offset)
<1>1. PICK step \in {"got", "plt"} : At(step)
  BY DEF Relocate
<1>2. step \in StepNames \ {"header", "segments", "end"} /\ step # "tls"
  BY DEF StepNames
<1>3. CASE load' = GoOn(load)
  BY <1>1, <1>2, <1>3, TablesAsTheyAre, GoingOnKeeps
<1>4. CASE Refuse("relocations") \/ Abort
  BY <1>4, RefusalKeeps DEF Abort, LoadErrors
<1>5. ASSUME NEW refused, load' = Again([load EXCEPT !.refused = refused])
      PROVE  LoaderInv'
  <2> DEFINE l == [load EXCEPT !.refused = refused]
  <2>1. TablesAreSound(l)
    BY TablesAsTheyAre DEF TablesAreSound, IsLoad
  <2> HIDE DEF l
  <2> QED BY <1>1, <1>2, <1>5, <2>1, AgainKeeps DEF l
<1>6. ASSUME TopFrame.at \in 1..Len(table.relocations), place # NoAddress,
             NEW value \in RelocationValues(f, r), WriteValue(place, value), value # << >>
      PROVE  LoaderInv'
  <2> DEFINE written == Written(load.sections, place, value)
             sections == written.sections
             performed == IF written.whole THEN load.performed @@ (place :> value) ELSE load.performed
             refused == IF written.whole THEN load.refused ELSE load.refused \cup {place}
             l1 == [load EXCEPT !.sections = sections]
             l2 == [l1 EXCEPT !.performed = performed]
             l3 == [l2 EXCEPT !.refused = refused]
  <2>1. IsKnown(f) /\ f \in DOMAIN load.tls /\ IsElf(File(f))
    <3>1. TopFrame.step = step /\ TopFrame = load.frames[1] /\ 1 \in 1..Len(load.frames)
      BY <1>1, AtStep DEF TopFrame
    <3> QED BY <1>1, <1>2, <3>1, AtStep DEF LoaderInv, TlsStands
  <2>2. r.offset \in Nat /\ r.addend \in Int
    BY <1>6, <2>1 DEF IsElf
  <2>3. AreFixes(load.fixes, f)
    BY DEF LoaderInv, FixesStand, AreFixes
  <2>4. place \in Int /\ f \in DOMAIN load.fixes /\ DOMAIN load.fixes[f] # {}
    BY <1>6, <2>2, <2>3, FixedIsNumber DEF FixedHere
  <2>5. IsWord(value, 8)
    BY <1>6, <2>1, <2>2, <2>4, RelocationWritesWord
  <2>6. AreLaidOut(sections)
    BY <2>4, <2>5, WrittenKeepsPlaces DEF LoaderInv
  <2>7. load' = Again(l3)
    <3>1. load' = Again([load EXCEPT !.sections = sections, !.performed = performed, !.refused = refused])
      BY <1>6 DEF WriteValue
    <3>2. l3 = [load EXCEPT !.sections = sections, !.performed = performed, !.refused = refused]
      OBVIOUS
    <3> QED BY <3>1, <3>2
  <2> HIDE DEF sections, performed, refused
  <2>8. TablesAreSound(l1)
    BY <2>6, TablesAsTheyAre DEF TablesAreSound, IsLoad
  <2> HIDE DEF l1
  <2>9. TablesAreSound(l2)
    BY <2>8 DEF TablesAreSound, IsLoad
  <2> HIDE DEF l2
  <2>10. TablesAreSound(l3)
    BY <2>9 DEF TablesAreSound, IsLoad
  <2> HIDE DEF l3
  <2> QED BY <1>1, <1>2, <2>7, <2>10, AgainKeeps
<1>7. \/ load' = GoOn(load) \/ Refuse("relocations") \/ Abort
      \/ load' = Again([load EXCEPT !.refused = @ \cup {place}])
      \/ /\ ~(TopFrame.at > Len(table.relocations)) /\ place # NoAddress
         /\ \E value \in RelocationValues(f, r) : WriteValue(place, value)
  BY DEF Relocate
<1>8. \A value : WriteValue(place, value) /\ value = << >> => Abort
  BY DEF WriteValue
<1>9. ~(TopFrame.at > Len(table.relocations)) => TopFrame.at \in 1..Len(table.relocations)
  <2>1. IsElf(File(f)) /\ TopFrame.at \in Nat \ {0}
    BY <1>1, AtStep
  <2>2. Len(table.relocations) \in Nat
    BY <2>1 DEF IsElf
  <2> HIDE DEF table
  <2> QED BY <2>1, <2>2
<1> HIDE DEF place, r, table
<1> QED BY <1>3, <1>4, <1>5, <1>6, <1>7, <1>8, <1>9

\* A function with one more argument.
WithArgument(g, x, v) == (x :> v) @@ g

\* A function with one more argument, or a new value for one.
LEMMA MoreArguments ==
  ASSUME NEW g, NEW x, NEW v
  PROVE  DOMAIN WithArgument(g, x, v) = {x} \cup DOMAIN g
BY DEF WithArgument, :>, @@

\* Its value there, ...
LEMMA OneMoreArgument ==
  ASSUME NEW g, NEW x, NEW v
  PROVE  WithArgument(g, x, v)[x] = v
BY DEF WithArgument, :>, @@

\* ... and elsewhere.
LEMMA OtherArguments ==
  ASSUME NEW g, NEW x, NEW v, NEW y \in DOMAIN g, y # x
  PROVE  WithArgument(g, x, v)[y] = g[y]
BY DEF WithArgument, :>, @@

\* Where a segment goes.
LEMMA SegmentIsPlaced ==
  ASSUME LoaderInv, NEW f \in DOMAIN launch.disk, NEW i \in 1..Len(File(f).segments)
  PROVE  LET segment == File(f).segments[i]
             start == AddressFor(f, segment)
         IN  /\ IsSegment(segment)
             /\ start \in Nat
             /\ IsInSteps(f, i, start)
             /\ ~IsPlacedAsIs(f) => EndOf(load.sections) <= start
<1> DEFINE segment == File(f).segments[i]
           start == AddressFor(f, segment)
<1>1. IsSegment(segment)
  BY FileIsElf DEF IsElf, LoaderInv
<1>2. CASE IsPlacedAsIs(f)
  <2>1. start = segment.start
    BY <1>2 DEF AddressFor, IsPlacedAsIs
  <2> QED BY <1>1, <1>2, <2>1 DEF IsSegment, IsInSteps
<1>3. CASE ~IsPlacedAsIs(f)
  <2>1. start = ChooseAddressForSection(segment, load.sections)
    BY <1>3 DEF AddressFor, IsPlacedAsIs
  <2>2. EndOf(load.sections) \in Nat
    BY DEF LoaderInv, AreLaidOut
  <2>3. segment.start \in Nat /\ segment.align \in Nat \ {0} /\ LibraryBase \in Nat
    BY <1>1, LoaderAssumption DEF IsSegment
  <2> DEFINE a(k) == LibraryBase + segment.start + k * segment.align
  <2>4. PICK k \in Nat : start = a(k) /\ FreePage(load.sections) <= a(k)
    BY <1>1, <2>1, <2>2, AddressChosen DEF IsFirstFrom
  <2>5. k * segment.align \in Nat
    BY <2>3, ProductBounds
  <2>6. EndOf(load.sections) <= FreePage(load.sections) /\ FreePage(load.sections) \in Nat
    BY <2>2, PageUpBounds DEF FreePage
  <2>7. a(k) \in Nat /\ EndOf(load.sections) <= a(k)
    <3>1. a(k) \in Nat
      <4> DEFINE p == k * segment.align
      <4>1. p \in Nat /\ segment.start \in Nat /\ LibraryBase \in Nat
        BY <2>3, <2>5
      <4> HIDE DEF p, segment
      <4>2. LibraryBase + segment.start + p \in Nat
        BY <4>1
      <4> QED BY <4>2 DEF p
    <3> HIDE DEF a
    <3> QED BY <2>2, <2>4, <2>6, <3>1
  <2>8. IsInSteps(f, i, start)
    BY <1>3, <2>4 DEF IsInSteps
  <2> QED BY <1>1, <2>4, <2>7, <2>8
<1> QED BY <1>2, <1>3

\* A segment that is close to the one in front is moved as far.
LEMMA CloseSegmentIsPlaced ==
  ASSUME LoaderInv, At("segments"),
         TopFrame.at \in 2..Len(File(TopFrame.file).segments), IsClose(TopFrame.file, TopFrame.at)
  PROVE  LET f == TopFrame.file
             i == TopFrame.at
             segment == File(f).segments[i]
         IN  AddressFor(f, segment) - segment.start = Moved(f, i - 1)
<1> DEFINE f == TopFrame.file
           i == TopFrame.at
           segment == File(f).segments[i]
           last == File(f).segments[i - 1]
           moved == load.fixes[f][last.start]
<1>1. /\ f \in DOMAIN launch.disk /\ i \in 1..Len(File(f).segments) /\ i - 1 \in 1..Len(File(f).segments)
      /\ load.frames # << >> /\ TopFrame.step = "segments" /\ i > 1
  BY AtStep
<1>2. IsSegment(segment) /\ IsSegment(last)
  BY <1>1, SegmentIsPlaced
<1>3. f \in DOMAIN load.fixes /\ DOMAIN load.fixes[f] = Starts(f, i - 1)
      /\ (~IsPlacedAsIs(f) => EndOf(load.sections) = moved + last.size)
  BY <1>1 DEF LoaderInv, LastStands
<1>4. last.start \in DOMAIN load.fixes[f]
  BY <1>1, <1>3 DEF Starts
<1>5. IsInSteps(f, i - 1, moved)
  BY <1>1, <1>3, <1>4 DEF LoaderInv, FixesStand, IsMovedInSteps
<1>6. CASE IsPlacedAsIs(f)
  <2>1. AddressFor(f, segment) = segment.start
    BY <1>6 DEF AddressFor, IsPlacedAsIs
  <2>2. moved = last.start
    BY <1>5, <1>6 DEF IsInSteps
  <2> QED BY <1>2, <2>1, <2>2 DEF Moved, IsSegment
<1>7. CASE ~IsPlacedAsIs(f)
  <2> DEFINE e == last.start + last.size
  <2>1. AddressFor(f, segment) = ChooseAddressForSection(segment, load.sections)
    BY <1>7 DEF AddressFor, IsPlacedAsIs
  <2>2. PICK k \in Nat : moved = LibraryBase + last.start + k * last.align
    BY <1>5, <1>7 DEF IsInSteps
  <2>3. /\ segment.align = last.align /\ segment.align % Page = 0
        /\ segment.start - segment.align < PageUp(e) /\ PageUp(e) <= segment.start
    BY DEF IsClose
  <2>4. /\ {segment.start, last.start, last.size} \subseteq Nat /\ segment.align \in Nat \ {0}
        /\ LibraryBase \in Nat
    BY <1>2, LoaderAssumption DEF IsSegment
  <2>5. k * segment.align \in Nat
    BY <2>4, ProductBounds
  <2>6. EndOf(load.sections) = moved + last.size /\ EndOf(load.sections) \in Nat
    BY <1>3, <1>7 DEF LoaderInv, AreLaidOut
  <2>7. Moved(f, i - 1) = moved - last.start
    BY DEF Moved
  <2> HIDE DEF moved, segment, last, f, i
  <2> DEFINE p == k * segment.align
  <2>8. moved = LibraryBase + last.start + p
    BY <2>2, <2>3
  <2>9. p \in Nat
    BY <2>5
  <2> HIDE DEF p
  <2>10. EndOf(load.sections) = e + LibraryBase + p /\ e \in Nat
    <3>1. last.start \in Nat /\ last.size \in Nat /\ LibraryBase \in Nat
      BY <2>4
    <3> QED BY <2>6, <2>8, <2>9, <3>1
  <2>11. EndOf(load.sections) = e + LibraryBase + k * segment.align
    BY <2>10 DEF p
  <2> HIDE DEF e
  <2>12. ChooseAddressForSection(segment, load.sections) = LibraryBase + segment.start + k * segment.align
    BY <1>2, <2>3, <2>6, <2>10, <2>11, CloseSegmentFollows
  <2>13. ChooseAddressForSection(segment, load.sections) = LibraryBase + segment.start + p
    BY <2>12 DEF p
  <2>14. AddressFor(f, segment) - segment.start = Moved(f, i - 1)
    BY <2>1, <2>4, <2>7, <2>8, <2>9, <2>13
  <2> QED BY <2>14 DEF f, i, segment
<1> QED BY <1>6, <1>7

\* The section a segment makes as a whole.
SectionOf(f, segment, start) ==
  [start |-> start, data |-> segment.content \o Zeros(segment.size - Len(segment.content)),
   read |-> "r" \in segment.flags, write |-> "w" \in segment.flags,
   execute |-> "x" \in segment.flags, file |-> f]

\* What EnterSegment makes of a segment is a section of its size.
LEMMA SegmentIsSection ==
  ASSUME NEW f, NEW segment, IsSegment(segment), NEW start
  PROVE  LET s == SectionOf(f, segment, start)
         IN  IsSection(s) /\ s.start = start /\ Len(s.data) = segment.size
<1> DEFINE n == segment.size - Len(segment.content)
           data == segment.content \o Zeros(n)
           s == SectionOf(f, segment, start)
<1>1. segment.content \in Seq(Byte) /\ n \in Nat /\ segment.size \in Nat /\ segment.size > 0
      /\ segment.size = Len(segment.content) + n
  BY DEF IsSegment
<1>2. Zeros(n) \in Seq(Byte) /\ Len(Zeros(n)) = n
  <2> HIDE DEF n
  <2>1. IsSeq(Zeros(n), n) /\ \A k \in 1..n : Zeros(n)[k] = 0
    BY <1>1, ZerosLength
  <2>2. 0 \in Byte
    BY DEF Byte
  <2>3. IsWord(Zeros(n), n)
    BY <1>1, <2>1, <2>2 DEF IsWord, IsSeq
  <2> QED BY <2>3, WordIsSeq DEF IsWord
<1> HIDE DEF n
<1>3. data \in Seq(Byte) /\ Len(data) = segment.size
  BY <1>1, <1>2
<1>4. s.start = start /\ s.data = data /\ HasSectionFields(s)
  BY DEF SectionOf, HasSectionFields, n
<1>5. IsWord(data, Len(data))
  BY <1>3, SequenceIsWord
<1> QED BY <1>1, <1>3, <1>4, <1>5 DEF IsSection

\* The table of where the segments of a file went, with one more of them.
LEMMA FixesAreKept ==
  ASSUME LoaderInv, launch' = launch, load'.files = load.files, At("segments"),
         NEW start \in Nat,
         LET f == TopFrame.file
             i == TopFrame.at
             segment == File(f).segments[i]
         IN  /\ i \in 1..Len(File(f).segments) /\ IsInSteps(f, i, start)
             /\ i > 1 /\ IsClose(f, i) => start - segment.start = Moved(f, i - 1)
             /\ ~(f \in DOMAIN load.fixes /\ segment.start \in DOMAIN load.fixes[f])
             /\ load'.fixes = WithArgument(load.fixes, f,
                                WithArgument(IF f \in DOMAIN load.fixes THEN load.fixes[f] ELSE << >>, segment.start, start))
  PROVE  /\ FixesStand' /\ LibrariesStayInOnePiece'
         /\ TopFrame.file \in DOMAIN load'.fixes
         /\ DOMAIN load'.fixes[TopFrame.file] = Starts(TopFrame.file, TopFrame.at)
         /\ load'.fixes[TopFrame.file][File(TopFrame.file).segments[TopFrame.at].start] = start
<1> DEFINE f == TopFrame.file
           i == TopFrame.at
           n == Len(File(f).segments)
           S(j) == File(f).segments[j].start
           old == IF f \in DOMAIN load.fixes THEN load.fixes[f] ELSE << >>
           new == WithArgument(old, S(i), start)
           fixes == load'.fixes
<1>1. /\ f \in DOMAIN launch.disk /\ IsKnown(f) /\ IsElf(File(f)) /\ load.frames # << >> /\ TopFrame.step = "segments"
      /\ i \in Nat \ {0} /\ n \in Nat
  BY AtStep DEF IsElf
<1>2. /\ \A j \in 1..n : S(j) \in Nat
      /\ \A j, k \in 1..n : S(j) = S(k) => j = k
  BY <1>1 DEF IsElf, IsSegment
<1>3. DOMAIN old = {S(j) : j \in 1..(i - 1)}
  <2>1. f \in DOMAIN load.fixes <=> i > 1
    BY <1>1 DEF LoaderInv, LastStands
  <2>2. CASE i > 1
    BY <1>1, <2>1, <2>2 DEF LoaderInv, LastStands, Starts
  <2>3. CASE ~(i > 1)
    <3>1. old = << >> /\ 1..(i - 1) = {}
      BY <1>1, <2>1, <2>3
    <3>2. DOMAIN old = {}
      BY <3>1
    <3> QED BY <3>1, <3>2
  <2> QED BY <2>2, <2>3
<1>4. /\ DOMAIN fixes = {f} \cup DOMAIN load.fixes /\ fixes[f] = new
      /\ \A g \in DOMAIN load.fixes : g # f => fixes[g] = load.fixes[g]
  <2> DEFINE was == load.fixes
  <2>1. fixes = WithArgument(was, f, new)
    OBVIOUS
  <2> HIDE DEF new, fixes, f, was
  <2>2. DOMAIN fixes = {f} \cup DOMAIN was
    BY <2>1, MoreArguments
  <2>3. fixes[f] = new
    <3>1. \A v : WithArgument(was, f, v)[f] = v
      BY OneMoreArgument
    <3> QED BY <2>1, <3>1
  <2>4. ASSUME NEW g \in DOMAIN was, g # f PROVE fixes[g] = was[g]
    BY <2>1, <2>4, OtherArguments
  <2> QED BY <2>2, <2>3, <2>4 DEF was
<1>5. /\ DOMAIN new = {S(i)} \cup DOMAIN old /\ new[S(i)] = start
      /\ \A o \in DOMAIN old : o # S(i) => new[o] = old[o]
  <2> DEFINE s == S(i)
  <2>1. new = WithArgument(old, s, start)
    OBVIOUS
  <2> HIDE DEF old, new, s
  <2>2. DOMAIN new = {s} \cup DOMAIN old
    BY <2>1, MoreArguments
  <2>3. new[s] = start
    <3>1. \A v : WithArgument(old, s, v)[s] = v
      BY OneMoreArgument
    <3> QED BY <2>1, <3>1
  <2>4. ASSUME NEW o \in DOMAIN old, o # s PROVE new[o] = old[o]
    BY <2>1, <2>4, OtherArguments
  <2> QED BY <2>2, <2>3, <2>4 DEF s
<1>6. i \in 1..n
  OBVIOUS
<1>7. DOMAIN new = {S(j) : j \in 1..i}
  <2>1. \A j \in 1..i : j = i \/ j \in 1..(i - 1)
    BY <1>1
  <2>2. i \in 1..i /\ \A j \in 1..(i - 1) : j \in 1..i
    BY <1>1
  <2> HIDE DEF S, old, new, i, n
  <2> QED BY <1>3, <1>5, <2>1, <2>2
<1>8. \A j \in 1..n : S(j) \in DOMAIN new => j <= i
  <2>1. TAKE j \in 1..n
  <2>2. ASSUME S(j) \in DOMAIN new PROVE j <= i
    <3>1. PICK k \in 1..i : S(j) = S(k)
      BY <1>7, <2>2
    <3>2. k \in 1..n /\ k <= i
      BY <1>1, <1>6
    <3>3. j = k
      BY <1>2, <3>1, <3>2
    <3> QED BY <3>2, <3>3
  <2> QED BY <2>2
<1>9. \A j \in 1..(i - 1) : /\ j \in 1..n /\ f \in DOMAIN load.fixes /\ S(j) \in DOMAIN load.fixes[f]
                           /\ new[S(j)] = load.fixes[f][S(j)]
  <2>1. TAKE j \in 1..(i - 1)
  <2>2. j \in 1..n /\ j # i
    BY <1>1, <1>6
  <2>3. S(j) \in DOMAIN old /\ S(j) # S(i)
    BY <1>2, <1>3, <1>6, <2>2
  <2>4. f \in DOMAIN load.fixes /\ old = load.fixes[f]
    <3>1. CASE f \in DOMAIN load.fixes
      BY <3>1
    <3>2. CASE f \notin DOMAIN load.fixes
      BY <2>3, <3>2
    <3> QED BY <3>1, <3>2
  <2> QED BY <1>5, <2>2, <2>3, <2>4
<1>10. \A g : IsKnown(g)' <=> IsKnown(g)
  BY DEF IsKnown
<1>11. \A g : File(g)' = File(g)
  BY DEF File
<1>12. \A g, j, a : IsInSteps(g, j, a)' <=> IsInSteps(g, j, a)
  BY DEF IsInSteps, IsPlacedAsIs, IsRoot, IsLibrary, File
<1>13. \A g, j : IsClose(g, j)' <=> IsClose(g, j)
  BY DEF IsClose, File
<1>14. IsInSteps(f, i, start) /\ (i > 1 /\ IsClose(f, i) => start - S(i) = Moved(f, i - 1))
  OBVIOUS
<1> HIDE DEF old, new, n
<1>15. \A g \in DOMAIN load.fixes : /\ IsKnown(g) /\ AreFixes(load.fixes, g)
                                   /\ \A j \in 1..Len(File(g).segments) :
                                        File(g).segments[j].start \in DOMAIN load.fixes[g] => IsMovedInSteps(g, j)
  BY DEF LoaderInv, FixesStand
<1>16. FixesStand'
  <2>1. ASSUME NEW g \in DOMAIN fixes
        PROVE  /\ IsKnown(g) /\ AreFixes(fixes, g)
               /\ \A j \in 1..Len(File(g).segments) :
                    File(g).segments[j].start \in DOMAIN fixes[g] => IsInSteps(g, j, fixes[g][File(g).segments[j].start])
    <3>1. CASE g # f
      <4>1. g \in DOMAIN load.fixes /\ fixes[g] = load.fixes[g]
        BY <1>4, <3>1
      <4> QED BY <1>15, <4>1 DEF AreFixes, IsMovedInSteps
    <3>2. CASE g = f
      <4>1. \A j \in 1..i : S(j) \in Nat /\ new[S(j)] \in Nat /\ IsInSteps(f, j, new[S(j)])
        <5>1. TAKE j \in 1..i
        <5>2. CASE j = i
          BY <1>2, <1>5, <1>6, <1>14, <5>2
        <5>3. CASE j # i
          <6>1. j \in 1..(i - 1) /\ j \in 1..n
            BY <1>1, <1>6, <5>3
          <6>2. f \in DOMAIN load.fixes /\ S(j) \in DOMAIN load.fixes[f] /\ new[S(j)] = load.fixes[f][S(j)]
            BY <1>9, <6>1
          <6>3. load.fixes[f][S(j)] \in Nat /\ S(j) \in Nat
            BY <1>15, <6>2 DEF AreFixes
          <6>4. IsInSteps(f, j, load.fixes[f][S(j)])
            BY <1>15, <6>1, <6>2 DEF IsMovedInSteps, n
          <6> QED BY <6>2, <6>3, <6>4
        <5> QED BY <5>2, <5>3
      <4>2. AreFixes(fixes, f)
        <5>1. \A o \in DOMAIN new : o \in Nat /\ new[o] \in Nat
          BY <1>7, <4>1
        <5> QED BY <1>4, <5>1 DEF AreFixes
      <4>3. \A j \in 1..n : S(j) \in DOMAIN new => j \in 1..i
        BY <1>1, <1>8
      <4>4. \A j \in 1..n : S(j) \in DOMAIN fixes[f] => IsInSteps(f, j, fixes[f][S(j)])
        BY <1>4, <4>1, <4>3
      <4> QED BY <1>1, <3>2, <4>2, <4>4 DEF n
    <3> QED BY <3>1, <3>2
  <2>2. \A g, j : IsMovedInSteps(g, j)' <=> IsInSteps(g, j, fixes[g][File(g).segments[j].start])
    BY <1>11, <1>12 DEF IsMovedInSteps, IsInSteps, IsPlacedAsIs, IsRoot, IsLibrary, File
  <2> QED BY <1>10, <1>11, <2>1, <2>2 DEF FixesStand
<1>17. LibrariesStayInOnePiece'
  <2> DEFINE Far(g, j) == fixes[g][File(g).segments[j].start] - File(g).segments[j].start
  <2>1. ASSUME NEW g \in DOMAIN fixes, NEW j \in 2..Len(File(g).segments),
               File(g).segments[j].start \in DOMAIN fixes[g], IsClose(g, j)
        PROVE  Far(g, j) = Far(g, j - 1)
    <3>1. CASE g # f
      <4>1. g \in DOMAIN load.fixes /\ fixes[g] = load.fixes[g]
        BY <1>4, <3>1
      <4> QED BY <2>1, <4>1 DEF LoaderInv, LibrariesStayInOnePiece, Moved
    <3>2. CASE g = f
      <4>1. j \in 2..n /\ j \in 1..n /\ j <= i
        BY <1>1, <1>4, <1>8, <2>1, <3>2 DEF n
      <4>2. j - 1 \in 1..(i - 1)
        BY <1>1, <4>1
      <4>3. Far(f, j - 1) = Moved(f, j - 1)
        BY <1>4, <1>9, <4>2 DEF Moved
      <4>4. CASE j = i
        <5>1. i > 1
          BY <1>1, <4>1, <4>4
        <5> QED BY <1>4, <1>5, <1>14, <2>1, <3>2, <4>3, <4>4, <5>1
      <4>5. CASE j # i
        <5>1. j \in 1..(i - 1)
          BY <1>1, <4>1, <4>5
        <5>2. f \in DOMAIN load.fixes /\ S(j) \in DOMAIN load.fixes[f] /\ fixes[f][S(j)] = load.fixes[f][S(j)]
          BY <1>4, <1>9, <5>1
        <5>3. Moved(f, j) = Moved(f, j - 1)
          BY <2>1, <3>2, <4>1, <5>2 DEF LoaderInv, LibrariesStayInOnePiece, n
        <5>4. Far(f, j) = Moved(f, j)
          BY <5>2 DEF Moved
        <5> QED BY <3>2, <4>3, <5>3, <5>4
      <4> QED BY <4>4, <4>5
    <3> QED BY <3>1, <3>2
  <2>2. \A g, j : Moved(g, j)' = Far(g, j)
    BY <1>11 DEF Moved, File
  <2> HIDE DEF Far
  <2> QED BY <1>11, <1>13, <2>1, <2>2 DEF LibrariesStayInOnePiece
<1>18. DOMAIN fixes[f] = Starts(f, i)
  BY <1>4, <1>7 DEF Starts
<1> QED BY <1>4, <1>5, <1>16, <1>17, <1>18

\* A segment becomes a section, or two.
LEMMA EnterSegmentKeeps ==
  ASSUME LoaderInv, launch' = launch, EnterSegment
  PROVE  LoaderInv'
<1> DEFINE f == TopFrame.file
           i == TopFrame.at
           n == Len(File(f).segments)
           segment == File(f).segments[i]
           start == AddressFor(f, segment)
           whole == SectionOf(f, segment, start)
           pieces == SplitSectionByPltgot(whole, segment, File(f).pltgot)
           old == IF f \in DOMAIN load.fixes THEN load.fixes[f] ELSE << >>
           fixes == WithArgument(load.fixes, f, WithArgument(old, segment.start, start))
           sections == WithPieces(load.sections, pieces)
           l1 == [load EXCEPT !.sections = sections]
           l2 == [l1 EXCEPT !.fixes = fixes]
           F == load.frames
           G == load'.frames
<1>1. At("segments")
  BY DEF EnterSegment
<1>2. /\ F # << >> /\ F \in Seq(Frames) /\ F[1] = TopFrame /\ TopFrame.step = "segments"
      /\ f \in DOMAIN launch.disk /\ IsElf(File(f)) /\ i \in Nat \ {0} /\ n \in Nat
  BY <1>1, AtStep DEF IsElf, TopFrame
<1>3. CASE load' = GoOn(load)
  BY <1>1, <1>3, TablesAsTheyAre, GoingOnKeeps DEF StepNames
<1>4. CASE \E reason \in LoadErrors : Refuse(reason)
  BY <1>4, RefusalKeeps
<1>5. ASSUME ~(i > n), ~(f \in DOMAIN load.fixes /\ segment.start \in DOMAIN load.fixes[f]),
             \A piece \in pieces : ~Collides(load.sections, piece), load' = Again(l2)
      PROVE  LoaderInv'
  <2>1. i \in 1..n
    BY <1>2, <1>5
  <2>2. /\ IsSegment(segment) /\ start \in Nat /\ IsInSteps(f, i, start)
        /\ ~IsPlacedAsIs(f) => EndOf(load.sections) <= start
    BY <1>2, <2>1, SegmentIsPlaced
  <2>3. i > 1 /\ IsClose(f, i) => start - segment.start = Moved(f, i - 1)
    <3>1. i > 1 => i \in 2..n
      BY <1>2, <2>1
    <3> QED BY <1>1, <3>1, CloseSegmentIsPlaced
  <2>4. segment.size \in Nat /\ segment.start \in Nat
    BY <2>2 DEF IsSegment
  <2>5. AreLaidOut(sections) /\ (~IsPlacedAsIs(f) => EndOf(sections) = start + segment.size)
    <3>1. IsSection(whole) /\ whole.start = start /\ Len(whole.data) = segment.size
      BY <2>2, SegmentIsSection
    <3>2. File(f).pltgot \in Nat
      BY <1>2 DEF IsElf
    <3> DEFINE end == start + segment.size
    <3>3. ArePieces(pieces, start, end)
      <4> HIDE DEF whole, segment, start
      <4>1. ArePieces(pieces, whole.start, whole.start + Len(whole.data))
        BY <2>2, <2>4, <3>1, <3>2, PiecesOfSection
      <4> QED BY <3>1, <4>1
    <3>4. end \in Nat
      BY <2>2, <2>4
    <3> HIDE DEF pieces, end, start
    <3>5. AreLaidOut(load.sections)
      BY DEF LoaderInv
    <3>6. AreLaidOut(sections) /\ (EndOf(load.sections) <= start => EndOf(sections) = end)
      BY <1>5, <2>2, <3>3, <3>4, <3>5, PiecesAreEntered
    <3> QED BY <2>2, <3>6 DEF end
  <2> HIDE DEF sections, fixes
  <2>6. IsLoad(l1) /\ l1.frames = F /\ l1.sections = sections /\ l1.files = load.files /\ l1.fixes = load.fixes
        /\ l1.error = load.error /\ l1.tls = load.tls /\ l1.symbols = load.symbols
        /\ l1.needs = load.needs /\ l1.skipped = load.skipped
    BY DEF LoaderInv, IsLoad
  <2> HIDE DEF l1
  <2>7. IsLoad(l2) /\ l2.frames = F /\ l2.sections = sections /\ l2.files = load.files /\ l2.fixes = fixes
        /\ l2.error = load.error /\ l2.tls = load.tls /\ l2.symbols = load.symbols
        /\ l2.needs = load.needs /\ l2.skipped = load.skipped
    BY <2>6 DEF IsLoad
  <2> HIDE DEF l2
  <2>8. GetsTo(l2, load', "segments", i + 1)
    BY <1>2, <1>5, <2>7, AgainIs
  <2>9. /\ IsLoad(load') /\ FramesGetTo(F, G, "segments", i + 1)
        /\ load'.sections = sections /\ load'.files = load.files /\ load'.fixes = fixes
        /\ load'.error = load.error /\ load'.tls = load.tls /\ load'.symbols = load.symbols
        /\ load'.needs = load.needs /\ load'.skipped = load.skipped
    BY <2>7, <2>8 DEF GetsTo, OthersStay
  <2>10. FramesStand'
    BY <1>2, <2>9, FramesGetOn DEF LoaderInv
  <2>11. FilesStand' /\ TablesStand'
    BY <2>9, FilesRest, TablesRest DEF LoaderInv
  <2>12. load'.fixes = WithArgument(load.fixes, f, WithArgument(old, segment.start, start))
    BY <2>9 DEF fixes
  <2>13. /\ FixesStand' /\ LibrariesStayInOnePiece'
         /\ f \in DOMAIN load'.fixes /\ DOMAIN load'.fixes[f] = Starts(f, i)
         /\ load'.fixes[f][segment.start] = start
    <3> HIDE DEF start
    <3> QED BY <1>1, <1>5, <2>1, <2>2, <2>3, <2>9, <2>12, FixesAreKept
  <2>14. LastStands'
    <3> DEFINE Stands(g, j) ==
                 LET last == File(g).segments[j - 1]
                 IN  /\ j - 1 <= Len(File(g).segments)
                     /\ g \in DOMAIN load'.fixes <=> j > 1
                     /\ j > 1 => DOMAIN load'.fixes[g] = Starts(g, j - 1)
                     /\ j > 1 /\ ~IsPlacedAsIs(g) => EndOf(sections) = load'.fixes[g][last.start] + last.size
    <3>1. G[1].file = f /\ G[1].at = i + 1
      BY <1>2, <2>9 DEF FramesGetTo
    <3>2. Stands(f, i + 1)
      <4>1. (i + 1) - 1 = i /\ i + 1 > 1 /\ i <= n
        BY <1>2, <2>1
      <4> QED BY <2>5, <2>13, <4>1
    <3>3. \A g : File(g)' = File(g)
      BY DEF File
    <3>4. \A g : IsPlacedAsIs(g)' <=> IsPlacedAsIs(g)
      BY DEF File, IsPlacedAsIs, IsRoot, IsLibrary
    <3>5. \A g, j : Starts(g, j)' = Starts(g, j)
      BY DEF File, Starts
    <3>6. LastStands' <=> (load'.frames # << >> /\ G[1].step = "segments" => Stands(G[1].file, G[1].at))
      BY <2>9, <3>3, <3>4, <3>5 DEF LastStands, TopFrame
    <3> HIDE DEF Stands
    <3> QED BY <3>1, <3>2, <3>6
  <2>15. TlsStands'
    <3>1. \A k \in 1..Len(G) : G[k].step \in {"needed", "got", "plt", "end"} => G[k].file \in DOMAIN load.tls
      <4>1. \A k \in 1..Len(F) : k = 1 \/ k \in 2..Len(F)
        BY <1>2
      <4> QED BY <2>9, <4>1, OthersWait DEF FramesGetTo
    <3>2. TlsIsKnown(load.files, F, load.tls)
      BY DEF TlsStands, LoaderInv
    <3>3. TlsIsKnown(load.files, G, load.tls)
      BY <2>9, <3>2, TlsStaysKnown
    <3> QED BY <2>9, <3>1, <3>3 DEF TlsStands, LoaderInv
  <2> QED BY <2>5, <2>9, <2>10, <2>11, <2>13, <2>14, <2>15 DEF LoaderInv
<1>6. \/ load' = GoOn(load) /\ i > n
      \/ \E reason \in {"assertion", "overlap", "strings"} : Refuse(reason)
      \/ /\ ~(i > n) /\ ~(f \in DOMAIN load.fixes /\ segment.start \in DOMAIN load.fixes[f])
         /\ \A piece \in pieces : ~Collides(load.sections, piece)
         /\ load' = Again(l2)
  BY DEF EnterSegment, Abort, SectionOf, WithArgument, WithPieces
<1> QED BY <1>3, <1>4, <1>5, <1>6 DEF LoadErrors

-----------------------------------------------------------------------------
(* The loader as part of an execution *)

\* Nothing is loaded at first.
LEMMA LoadingBegins ==
  ASSUME Init
  PROVE  LoaderInv
<1> DEFINE new == NewFrame(launch.root)
<1>1. launch \in Launches /\ launch.root \in DOMAIN launch.disk
  BY LaunchesAssumption DEF Init
<1>2. /\ load.frames = <<new>> /\ load.files = << >> /\ load.sections = << >> /\ load.fixes = << >>
      /\ load.symbols = {} /\ load.needs = {} /\ load.tls = << >> /\ load.error = "" /\ IsLoad(load)
  BY DEF Init, NothingLoaded, IsLoad
<1>3. new \in Frames /\ new.step = "header"
  BY <1>1 DEF NewFrame, Frames, StepNames
<1> HIDE DEF new
<1> DEFINE files == load.files
           sections == load.sections
           fixes == load.fixes
           tls == load.tls
           frames == load.frames
<1>4. files = << >> /\ sections = << >> /\ fixes = << >> /\ tls = << >> /\ frames = <<new>>
  BY <1>2
<1> HIDE DEF files, sections, fixes, tls, frames
<1>5. FramesStand
  <2>1. frames \in Seq(Frames) /\ Len(frames) = 1 /\ frames[1] = new
    BY <1>3, <1>4
  <2>2. \A i \in 1..Len(files) : FALSE
    BY <1>4
  <2>3. \A i \in 1..1 : i = 1
    OBVIOUS
  <2> QED BY <1>3, <2>1, <2>2, <2>3 DEF FramesStand, IsKnown, frames, files
<1>6. FilesStand
  <2>1. files \in Seq(DOMAIN launch.disk) /\ \A i \in 1..Len(files) : FALSE
    BY <1>4
  <2> QED BY <2>1 DEF FilesStand, IsInjectiveSeq, files
<1>7. AreLaidOut(load.sections)
  <2>1. DOMAIN sections = {} /\ sections = [b \in {} |-> sections[b]]
    BY <1>4
  <2>2. EndOf(sections) = 0
    BY <1>4 DEF EndOf
  <2>3. AreLaidOut(sections)
    BY <2>1, <2>2 DEF AreLaidOut, AreSections, LieApart
  <2> QED BY <2>3 DEF sections
<1>8. DOMAIN tls = {} /\ DOMAIN fixes = {}
  BY <1>4
<1>9. TlsStands
  <2>1. \A i \in 1..Len(frames) : frames[i].step = "header"
    BY <1>3, <1>4
  <2>2. TlsIsKnown(files, frames, tls)
    BY <1>4 DEF TlsIsKnown
  <2> QED BY <1>8, <2>1, <2>2 DEF TlsStands, tls, frames, files
<1>10. TablesStand
  BY <1>2 DEF TablesStand, TablesAreOfLoadedFiles
<1>11. FixesStand /\ LibrariesStayInOnePiece
  BY <1>8 DEF FixesStand, LibrariesStayInOnePiece, fixes
<1>12. LastStands
  <2>1. frames[1].step = "header"
    BY <1>3, <1>4
  <2> QED BY <2>1 DEF LastStands, TopFrame, frames
<1> QED BY <1>1, <1>2, <1>5, <1>6, <1>7, <1>9, <1>10, <1>11, <1>12 DEF LoaderInv, LoadErrors

\* Every step of the loader, ...
LEMMA LoaderStepKeeps ==
  ASSUME LoaderInv, launch' = launch, LoaderStep
  PROVE  LoaderInv'
BY ReadHeaderKeeps, EnterSegmentKeeps, CheckEntryKeeps, EnterFunctionsKeeps, EnterSymbolsKeeps,
   EnterTlsKeeps, LoadNeededKeeps, RelocateKeeps, FinishFileKeeps DEF LoaderStep

\* ... and every other one, keeps the invariant.
LEMMA LoaderInvStays ==
  ASSUME LoaderInv, [Next]_vars
  PROVE  LoaderInv'
<1>1. CASE LoadFiles
  BY <1>1, LoaderStepKeeps DEF LoadFiles
<1>2. CASE BuildPrologue /\ ~(UNCHANGED <<launch, load>>)
  <2>1. Abort /\ launch' = launch
    BY <1>2 DEF BuildPrologue
  <2> QED BY <2>1, RefusalKeeps DEF Abort, LoadErrors
<1>3. CASE UNCHANGED <<launch, load>>
  <2>1. /\ load'.frames = load.frames /\ load'.files = load.files /\ load'.sections = load.sections
        /\ load'.fixes = load.fixes /\ load'.symbols = load.symbols /\ load'.needs = load.needs
        /\ load'.skipped = load.skipped /\ load'.tls = load.tls /\ load'.error = load.error
        /\ launch' = launch /\ IsLoad(load')
    BY <1>3 DEF LoaderInv
  <2>2. load'.error \in LoadErrors
    BY <2>1 DEF LoaderInv
  <2> QED BY <2>1, <2>2, TablesRestKeep
<1>4. \/ LoadFiles \/ BuildPrologue \/ UNCHANGED <<launch, load>>
  BY DEF Next, vars, ExecuteNode, EnterProgram, RecogniseNext, FinishNative
<1> QED BY <1>1, <1>2, <1>3, <1>4

\* The invariant of the loader, in all executions.
LEMMA LoaderInvHolds == Spec => []LoaderInv
<1>1. Init => LoaderInv
  BY LoadingBegins
<1>2. LoaderInv /\ [Next]_vars => LoaderInv'
  BY LoaderInvStays
<1> QED BY <1>1, <1>2, PTL DEF Spec

\* However the files are loaded, at every step of load_elf64: sections lie apart
\* and hold bytes, also where they were relocated, symbols and dependences are
\* those of loaded files, and no file is loaded twice, however files need each other.
THEOREM TablesOfLoaderAreSound == Spec => []LoadTypeOK
<1>1. LoaderInv => LoadTypeOK
  BY LoaderInvImplies
<1> QED BY <1>1, LoaderInvHolds, PTL

\* Segments that are as close as the ABI demands keep the distance their file
\* states, although each looks for its place on its own
\* (choose_address_for_section): what the instructions of one segment find
\* relative to their own address is where they look for it.
THEOREM LibrariesAlwaysStayInOnePiece == Spec => []LibrariesStayInOnePiece
<1>1. LoaderInv => LibrariesStayInOnePiece
  BY LoaderInvImplies
<1> QED BY <1>1, LoaderInvHolds, PTL

-----------------------------------------------------------------------------
(* All of an execution has its types *)

\* What the machine and the loader hold is only one part: stages follow one another.
StagesStand ==
  /\ phase \in {"fetch", "run", "done", "failed", "refused"}
  /\ \A l \in temps : l[1] = "reg" /\ l[2] >= TMP
  /\ phase \in {"done", "failed", "refused"} => code \in {<< >>, AssertionFails}
  /\ stage \in {"loading", "prologue", "program"}
  /\ stage # "loading" => IsLoaded
  /\ stage # "program" => arch = Specified!Off

\* A step of the thread keeps its phase, its temporaries and its code in order.
LEMMA ThreadStepKeepsStages ==
  ASSUME StagesStand, ThreadStep
  PROVE  /\ phase' \in {"fetch", "run", "done", "failed", "refused"}
         /\ \A l \in temps' : l[1] = "reg" /\ l[2] >= TMP
         /\ phase' \in {"done", "failed", "refused"} => code' \in {<< >>, AssertionFails}
<1>1. CASE PassInstruction
  <2>1. PICK step : /\ phase' = IF step.cpu.error # "" THEN "failed" ELSE "run"
                    /\ code' = IF step.cpu.error # "" THEN << >> ELSE Tail(code)
                    /\ temps' = IF Head(code).gik \in {"REG:=HAVOC", "REG[REG]:=HAVOC"}
                                  THEN temps \ WrittenBy(step.io)
                                  ELSE temps \cup Temporaries(Assigned(Head(code), step.io))
    BY <1>1 DEF PassInstruction
  <2>2. \A l \in temps' : l \in temps \/ (l[1] = "reg" /\ l[2] >= TMP)
    BY <2>1 DEF Temporaries
  <2> QED BY <2>1, <2>2 DEF StagesStand
<1>2. CASE PassGuard
  BY <1>2 DEF PassGuard, StagesStand
<1>3. CASE PassCall
  BY <1>3 DEF PassCall, StagesStand
<1>4. CASE EnterLoop
  BY <1>4 DEF EnterLoop, StagesStand
<1>5. CASE LeaveLoop
  BY <1>5 DEF LeaveLoop, StagesStand
<1>6. CASE ReachExit
  BY <1>6 DEF ReachExit, StagesStand
<1> QED BY <1>1, <1>2, <1>3, <1>4, <1>5, <1>6 DEF ThreadStep

\* No step gets ahead of its stage.
LEMMA StepKeepsStages ==
  ASSUME StagesStand, [Next]_vars
  PROVE  StagesStand'
<1>1. CASE LoadFiles
  <2>1. LoaderStep => Loading
    BY DEF LoaderStep, ReadHeader, EnterSegment, CheckEntry, EnterFunctions, EnterSymbols, EnterTls,
           LoadNeeded, Relocate, FinishFile, At
  <2>2. ~IsLoaded
    BY <1>1, <2>1 DEF LoadFiles, Loading, IsLoaded
  <2>3. stage = "loading"
    BY <2>2 DEF StagesStand
  <2> QED BY <1>1, <2>3 DEF LoadFiles, threadVars, StagesStand
<1>2. CASE BuildPrologue
  <2>1. stage = "loading" /\ IsLoaded /\ UNCHANGED <<arch, temps>>
    BY <1>2 DEF BuildPrologue, threadVars
  <2>2. \/ stage' = "prologue" /\ phase' = "run" /\ UNCHANGED load
        \/ stage' = stage /\ UNCHANGED <<phase, code>>
    BY <1>2 DEF BuildPrologue, threadVars
  <2> QED BY <2>1, <2>2 DEF StagesStand, IsLoaded
<1>3. CASE ExecuteNode
  BY <1>3, ThreadStepKeepsStages DEF ExecuteNode, StagesStand, IsLoaded
<1>4. CASE EnterProgram
  BY <1>4 DEF EnterProgram, StagesStand, IsLoaded
<1>5. CASE RecogniseNext
  <2>1. \/ phase' = "run"
        \/ phase' = "refused" /\ code' \in {NotRecognised, AssertionFails}
    BY <1>5 DEF RecogniseNext
  <2>2. stage = "program" /\ UNCHANGED <<load, stage, arch, temps>>
    BY <1>5 DEF RecogniseNext
  <2> QED BY <2>1, <2>2 DEF StagesStand, IsLoaded, NotRecognised
<1>6. CASE FinishNative
  BY <1>6 DEF FinishNative, StagesStand, IsLoaded
<1>7. CASE UNCHANGED vars
  BY <1>7 DEF vars, threadVars, StagesStand, IsLoaded
<1> QED BY <1>1, <1>2, <1>3, <1>4, <1>5, <1>6, <1>7 DEF Next

\* An execution begins without memory.
LEMMA MemoriesBeginInBlocks ==
  ASSUME Init
  PROVE  MemoriesInBlocks
<1> DEFINE s == FreshMachine(launch)
<1>1. launch \in Launches /\ cpu = s /\ twin = WithChanged(s, launch.input)
  BY DEF Init, Begins
<1>2. s.mem = << >> /\ IsMachine(s)
  BY DEF FreshMachine, IsMachine
<1> HIDE DEF s
<1>3. \/ launch.input = << >>
      \/ launch.input # << >> /\ launch.input[1] = "stream"
  BY <1>1, LaunchesAssumption
<1>4. twin = s \/ \E streams : twin = [s EXCEPT !.streams = streams]
  <2>1. CASE launch.input = << >>
    BY <1>1, <2>1 DEF WithChanged
  <2>2. CASE launch.input # << >> /\ launch.input[1] = "stream"
    <3>1. twin = [s EXCEPT !.streams[launch.input[2]].content = Changed(@, launch.input[3] + 1)]
      BY <1>1, <2>2 DEF WithChanged
    <3> QED BY <3>1
  <2> QED BY <1>3, <2>1, <2>2
<1>5. twin.mem = << >>
  BY <1>2, <1>4 DEF IsMachine
<1> QED BY <1>1, <1>2, <1>5 DEF MemoriesInBlocks, MemoryInBlocks

\* Loader, thread and stages are what they should be in all executions, as long as
\* no store runs over the end of a block.
THEOREM TypesAreCorrectThroughout ==
  Spec /\ []NextIsWellFormed /\ []NextStaysInBlocks => []TypeOK
<1>1. Init => MemoriesInBlocks /\ StagesStand /\ LoadingIsFirst
  BY MemoriesBeginInBlocks DEF Init, Begins, StagesStand, LoadingIsFirst
<1>2. StagesStand /\ [Next]_vars => StagesStand'
  BY StepKeepsStages
<1>3. LoadingIsFirst /\ [Next]_vars => LoadingIsFirst'
  BY LoadingStaysFirst
<1>4. /\ NextIsWellFormed /\ NextStaysInBlocks /\ TwinFollows /\ LoadingIsFirst /\ MemoriesInBlocks
      /\ [Next]_vars
      => MemoriesInBlocks'
  BY StepsAreOfThread, StepStaysInBlocks
<1>5. /\ LoadTypeOK /\ PoolsAreBytes /\ NextIsWellFormed /\ NextStaysInBlocks /\ MemoriesInBlocks /\ StagesStand
      => TypeOK
  BY DEF TypeOK, ThreadTypeOK, MemoriesInBlocks, MemoryInBlocks, StagesStand
<1> QED BY <1>1, <1>2, <1>3, <1>4, <1>5, TwinFollowsThroughout, PoolsAreBytesThroughout,
           TablesOfLoaderAreSound, PTL DEF Spec

-----------------------------------------------------------------------------
(* Sections lie apart, so the image of the loader does *)

\* The numbers below one of them.
Below(S, b) == {c \in S : c < b}

\* Of numbers below a bound, some number has any number of others below it.
LEMMA RankExists ==
  ASSUME NEW S \in SUBSET Nat, NEW m \in Nat, \A b \in S : b <= m,
         NEW i \in Nat, i < Cardinality(S)
  PROVE  \E b \in S : Cardinality(Below(S, b)) = i
<1>1. IsFiniteSet(S) /\ Cardinality(S) \in Nat
  BY FS_BoundedSetOfNaturals, FS_CardinalityType
<1>2. \A b \in S : IsFiniteSet(Below(S, b)) /\ Cardinality(Below(S, b)) \in Nat
  <2>1. \A b \in S : Below(S, b) \in SUBSET S
    BY DEF Below
  <2> QED BY <1>1, <2>1, FS_Subset, FS_CardinalityType
<1> DEFINE Few == {b \in S : Cardinality(Below(S, b)) <= i}
<1>3. S # {}
  BY <1>1, FS_EmptySet
<1>4. Few \in SUBSET Nat /\ Few # {} /\ \A b \in Few : b <= m
  <2>1. PICK b \in S : \A c \in S : b <= c
    BY <1>3, LeastExists
  <2>2. \A c \in S : ~(c < b)
    BY <2>1
  <2>3. Below(S, b) = {}
    BY <2>2 DEF Below
  <2>4. b \in Few
    BY <2>3, FS_EmptySet
  <2> QED BY <2>4
<1>5. PICK b \in Few : \A c \in Few : c <= b
  <2> HIDE DEF Few
  <2> QED BY <1>4, GreatestExists
<1> DEFINE U == Below(S, b) \cup {b}
<1>6. IsFiniteSet(U) /\ Cardinality(U) = Cardinality(Below(S, b)) + 1
  <2>1. b \notin Below(S, b)
    BY DEF Below
  <2> QED BY <1>2, <2>1, FS_AddElement
<1>7. ASSUME Cardinality(Below(S, b)) < i
      PROVE  FALSE
  <2> DEFINE V == {c \in S : b < c}
  <2>1. CASE V = {}
    <3>1. U = S
      <4>1. \A c \in S : c \in Nat /\ b \in S /\ ~(b < c) => c < b \/ c = b
        OBVIOUS
      <4> QED BY <2>1, <4>1 DEF Below
    <3> QED BY <1>2, <1>6, <1>7, <3>1
  <2>2. CASE V # {}
    <3>1. PICK c \in V : \A d \in V : c <= d
      <4> HIDE DEF V
      <4>1. V \in SUBSET Nat
        BY DEF V
      <4> QED BY <2>2, <4>1, LeastExists
    <3>2. Below(S, c) = U
      <4>1. b \in Nat /\ c \in S /\ b < c
        BY <3>1
      <4>2. \A d \in S : d < c <=> d < b \/ d = b
        BY <3>1, <4>1
      <4> QED BY <4>1, <4>2 DEF Below
    <3>3. c \in Few
      BY <1>2, <1>6, <1>7, <3>1, <3>2
    <3> QED BY <1>5, <3>1, <3>3
  <2> QED BY <2>1, <2>2
<1> QED BY <1>2, <1>5, <1>7

\* The sections of an image are those that were loaded, each once.
LEMMA ImageIs ==
  ASSUME LoaderInv
  PROVE  LET D == LoadedImage
             n == Len(D.sections)
         IN  /\ n \in Nat /\ D.sections = [i \in 1..n |-> D.sections[i]]
             /\ \A i \in 1..n : /\ D.sections[i].start \in DOMAIN load.sections
                                /\ D.sections[i].data = load.sections[D.sections[i].start].data
             /\ \A i, j \in 1..n : i # j => D.sections[i].start # D.sections[j].start
<1> DEFINE starts == DOMAIN load.sections
           Start(i) == CHOOSE b \in starts : Cardinality({c \in starts : c < b}) = i - 1
           Entered(s) == [start |-> s.start, data |-> s.data, read |-> s.read, write |-> s.write,
                          file |-> FileNumber(s.file)]
           n == Cardinality(starts)
           sections == [i \in 1..n |-> Entered(load.sections[Start(i)])]
           D == LoadedImage
<1>1. AreLaidOut(load.sections) /\ starts \in SUBSET Nat /\ \A b \in starts : load.sections[b].start = b
  BY DEF LoaderInv, AreLaidOut, AreSections
<1>2. EndOf(load.sections) \in Nat /\ \A b \in starts : b <= EndOf(load.sections)
  <2>1. \A b \in starts : Len(load.sections[b].data) \in Nat /\ b \in Nat
    BY <1>1, SectionLength DEF AreLaidOut
  <2> QED BY <1>1, <2>1 DEF AreLaidOut
<1>3. n \in Nat
  BY <1>1, <1>2, FS_BoundedSetOfNaturals, FS_CardinalityType
<1>4. D.sections = sections
  BY DEF LoadedImage
<1>5. ASSUME NEW i \in 1..n
      PROVE  Start(i) \in starts /\ Cardinality(Below(starts, Start(i))) = i - 1
  <2> HIDE DEF starts
  <2>1. i - 1 \in Nat /\ i - 1 < n
    BY <1>3
  <2>2. \E b \in starts : Cardinality(Below(starts, b)) = i - 1
    BY <1>1, <1>2, <2>1, RankExists
  <2>3. \E b \in starts : Cardinality({c \in starts : c < b}) = i - 1
    BY <2>2 DEF Below
  <2>4. Start(i) \in starts /\ Cardinality({c \in starts : c < Start(i)}) = i - 1
    BY <2>3
  <2> QED BY <2>4 DEF Below
<1> HIDE DEF starts, n, Start
<1>6. ASSUME NEW i \in 1..n
      PROVE  sections[i].start = Start(i) /\ sections[i].data = load.sections[Start(i)].data
  BY <1>1, <1>5
<1>7. sections = [i \in 1..n |-> sections[i]] /\ Len(sections) = n
  BY <1>3
<1> HIDE DEF sections
<1>8. \A i \in 1..n : sections[i].start \in starts /\ sections[i].data = load.sections[sections[i].start].data
  BY <1>5, <1>6
<1>9. \A i, j \in 1..n : i # j => sections[i].start # sections[j].start
  <2>1. SUFFICES ASSUME NEW i \in 1..n, NEW j \in 1..n, Start(i) = Start(j)
                 PROVE  i = j
    BY <1>6
  <2>2. i - 1 = j - 1
    BY <1>5, <2>1
  <2> QED BY <1>3, <2>2
<1> HIDE DEF D
<1> QED BY <1>3, <1>4, <1>7, <1>8, <1>9 DEF D, starts

\* One lies in front of the other.
AreDisjoint(a, m, b, n) == a + m <= b \/ b + n <= a

\* So the sections of an image are not empty, and lie apart.
LEMMA ImageLiesApart ==
  ASSUME LoaderInv
  PROVE  LET S == LoadedImage.sections
         IN  /\ \A i \in 1..Len(S) : S[i].start \in Nat /\ Len(S[i].data) \in Nat /\ Len(S[i].data) > 0
             /\ \A i, j \in 1..Len(S) :
                  i # j => AreDisjoint(S[i].start, Len(S[i].data), S[j].start, Len(S[j].data))
<1> DEFINE S == LoadedImage.sections
           n == Len(S)
<1>1. /\ \A i \in 1..n : S[i].start \in DOMAIN load.sections /\ S[i].data = load.sections[S[i].start].data
      /\ \A i, j \in 1..n : i # j => S[i].start # S[j].start
  BY ImageIs
<1> HIDE DEF S, n
<1>2. AreSections(load.sections) /\ LieApart(load.sections)
  BY DEF LoaderInv, AreLaidOut
<1>3. \A i \in 1..n : S[i].start \in Nat /\ Len(S[i].data) \in Nat /\ Len(S[i].data) > 0
  BY <1>1, <1>2, SectionLength
<1>4. ASSUME NEW i \in 1..n, NEW j \in 1..n, i # j
      PROVE  AreDisjoint(S[i].start, Len(S[i].data), S[j].start, Len(S[j].data))
  <2>1. S[i].start < S[j].start \/ S[j].start < S[i].start
    BY <1>1, <1>3, <1>4
  <2> QED BY <1>1, <1>2, <2>1 DEF LieApart, AreDisjoint
<1> QED BY <1>3, <1>4 DEF S, n

-----------------------------------------------------------------------------
(* The areas the prologue enters into memory *)

\* Rounding goes by less than a page, and not below 0.
LEMMA PageBounds ==
  ASSUME NEW x \in Nat
  PROVE  PageUp(x) <= x + Page /\ PageDown(x) \in Nat /\ PageDown(x) <= x
<1>1. Page \in Nat \ {0}
  BY DescriptorAssumption
<1>2. x % Page \in 0..(Page - 1) /\ x % Page <= x
  <2>1. \A m \in Nat \ {0} : x % m \in 0..(m - 1) /\ x % m <= x
    BY Z3
  <2> QED BY <1>1, <2>1
<1> DEFINE r == x % Page
<1>3. r \in 0..(Page - 1) /\ r <= x /\ PageUp(x) = (IF r = 0 THEN x ELSE x + Page - r) /\ PageDown(x) = x - r
  BY <1>2 DEF PageUp, PageDown
<1> HIDE DEF r
<1> QED BY <1>1, <1>3

\* Sections, stack and thread-local storage in the order in which they are entered.
NumAreas(D) == Len(D.sections) + 2
AreaBegin(D, i) ==
  IF i <= Len(D.sections) THEN D.sections[i].start
  ELSE IF i = Len(D.sections) + 1 THEN StackBegin(D) ELSE HeapStart(D)
AreaSize(D, i) ==
  IF i <= Len(D.sections) THEN Len(D.sections[i].data)
  ELSE IF i = Len(D.sections) + 1 THEN StackSize(D) ELSE Len(TlsContent(D))

\* There is room for the thread-local storage.
TlsFits(D) ==
  LET tlsEnd == HeapStart(D) + Len(TlsContent(D))
  IN  tlsEnd <= HeapEnd(D) /\ tlsEnd <= StackBegin(D)

\* The sections of an image lie apart, and nothing is empty.
IsSound(D) ==
  LET S == D.sections
  IN  /\ Len(S) \in Nat
      /\ \A i \in 1..Len(S) : S[i].start \in Nat /\ Len(S[i].data) \in Nat /\ Len(S[i].data) > 0
      /\ \A i, j \in 1..Len(S) :
           i # j => AreDisjoint(S[i].start, Len(S[i].data), S[j].start, Len(S[j].data))
      /\ StackSize(D) \in Nat /\ StackSize(D) > 0 /\ StackBegin(D) \in Int
      /\ Len(TlsContent(D)) \in Nat /\ Len(TlsContent(D)) > 0

\* The heap begins behind the executable, and what else there is begins behind its end.
LEMMA HeapLiesBetween ==
  ASSUME NEW D, IsSound(D), StackFits(D)
  PROVE  /\ HeapStart(D) \in Nat /\ HeapEnd(D) \in Nat
         /\ \A s \in OfExecutable(D) : SectionEnd(s) <= HeapStart(D)
         /\ \A s \in Sections(D) \ OfExecutable(D) : HeapEnd(D) <= s.start
<1> DEFINE ends == {PageUp(SectionEnd(s)) : s \in OfExecutable(D)}
           starts == {PageDown(s.start) : s \in Sections(D) \ OfExecutable(D)}
<1>1. \A s \in Sections(D) : s.start \in Nat /\ SectionEnd(s) \in Nat /\ SectionEnd(s) <= StackEnd
  <2>1. StackEnd \in Nat /\ StackBegin(D) <= StackEnd
    BY DescriptorAssumption DEF StackBegin, IsSound
  <2>2. \A s \in Sections(D) : s.start \in Nat /\ SectionEnd(s) \in Nat
    BY DEF IsSound, Sections, SectionEnd
  <2>3. StackBegin(D) \in Int
    BY DEF IsSound
  <2> QED BY <2>1, <2>2, <2>3 DEF StackFits
<1>2. OfExecutable(D) \subseteq Sections(D) /\ Page \in Nat /\ StackEnd \in Nat
  BY DescriptorAssumption DEF OfExecutable
<1>3. \A s \in OfExecutable(D) : /\ PageUp(SectionEnd(s)) \in Nat /\ SectionEnd(s) <= PageUp(SectionEnd(s))
                                 /\ PageUp(SectionEnd(s)) <= StackEnd + Page
  <2>1. TAKE s \in OfExecutable(D)
  <2> DEFINE x == SectionEnd(s)
             y == PageUp(x)
  <2>2. x \in Nat /\ x <= StackEnd
    BY <1>1, <1>2
  <2> HIDE DEF x
  <2>3. y \in Nat /\ x <= y /\ y <= x + Page
    BY <2>2, PageBounds, PageUpBounds
  <2> HIDE DEF y
  <2>4. y \in Nat /\ x <= y /\ y <= StackEnd + Page
    BY <1>2, <2>2, <2>3
  <2> QED BY <2>4 DEF x, y
<1>4. \A s \in Sections(D) : PageDown(s.start) \in Nat /\ PageDown(s.start) <= s.start
  BY <1>1, PageBounds
<1>5. HeapStart(D) \in Nat /\ \A a \in ends : a <= HeapStart(D)
  <2>1. ends \in SUBSET Nat /\ (\A a \in ends : a <= StackEnd + Page) /\ StackEnd + Page \in Nat
    BY <1>2, <1>3
  <2>2. HeapStart(D) = IF ends = {} THEN 0 ELSE CHOOSE a \in ends : \A b \in ends : b <= a
    BY DEF HeapStart
  <2> HIDE DEF ends
  <2>3. CASE ends = {}
    BY <2>2, <2>3
  <2>4. CASE ends # {}
    <3>1. \E a \in ends : \A b \in ends : b <= a
      BY <2>1, <2>4, GreatestExists
    <3> QED BY <2>1, <2>2, <2>4, <3>1
  <2> QED BY <2>3, <2>4
<1>6. HeapEnd(D) \in Nat /\ \A a \in starts : HeapEnd(D) <= a
  <2>1. starts \in SUBSET Nat
    BY <1>4
  <2>2. HeapEnd(D) = IF starts = {} THEN StackEnd ELSE CHOOSE a \in starts : \A b \in starts : a <= b
    BY DEF HeapEnd
  <2> HIDE DEF starts
  <2>3. CASE starts = {}
    BY <1>2, <2>2, <2>3
  <2>4. CASE starts # {}
    <3>1. \E a \in starts : \A b \in starts : a <= b
      BY <2>1, <2>4, LeastExists
    <3> QED BY <2>1, <2>2, <2>4, <3>1
  <2> QED BY <2>3, <2>4
<1>7. ASSUME NEW s \in OfExecutable(D) PROVE SectionEnd(s) <= HeapStart(D)
  <2> DEFINE x == SectionEnd(s)
             y == PageUp(x)
  <2>1. y \in ends /\ y \in Nat /\ x \in Nat /\ x <= y
    BY <1>1, <1>2, <1>3
  <2> HIDE DEF x, y, ends
  <2>2. x <= HeapStart(D)
    BY <1>5, <2>1
  <2> QED BY <2>2 DEF x
<1>8. ASSUME NEW s \in Sections(D) \ OfExecutable(D) PROVE HeapEnd(D) <= s.start
  <2> DEFINE y == PageDown(s.start)
  <2>1. y \in starts /\ y \in Nat /\ s.start \in Nat /\ y <= s.start
    BY <1>1, <1>4
  <2> HIDE DEF y, starts
  <2> QED BY <1>6, <2>1
<1> QED BY <1>5, <1>6, <1>7, <1>8

\* All areas lie apart, and none is empty.
AreasLieApart(D) ==
  /\ \A i \in 1..NumAreas(D) : AreaBegin(D, i) \in Int /\ AreaSize(D, i) \in Nat /\ AreaSize(D, i) > 0
  /\ \A i, j \in 1..NumAreas(D) :
       i # j => AreDisjoint(AreaBegin(D, i), AreaSize(D, i), AreaBegin(D, j), AreaSize(D, j))

\* They do, if there is room for all of them.
LEMMA AreasAreApart ==
  ASSUME NEW D, IsSound(D), StackFits(D), TlsFits(D)
  PROVE  AreasLieApart(D)
<1> DEFINE n == Len(D.sections)
           B(i) == AreaBegin(D, i)
           M(i) == AreaSize(D, i)
           h == HeapStart(D)
           t == Len(TlsContent(D))
           a == StackBegin(D)
           m == StackSize(D)
<1>1. /\ n \in Nat /\ m \in Nat /\ m > 0 /\ a \in Int /\ t \in Nat /\ t > 0
      /\ \A i \in 1..n : D.sections[i].start \in Nat /\ Len(D.sections[i].data) \in Nat /\ Len(D.sections[i].data) > 0
      /\ \A i, j \in 1..n : i # j => AreDisjoint(D.sections[i].start, Len(D.sections[i].data),
                                                 D.sections[j].start, Len(D.sections[j].data))
  BY DEF IsSound
<1>2. \A i \in 1..n : B(i) = D.sections[i].start /\ M(i) = Len(D.sections[i].data)
  BY <1>1 DEF AreaBegin, AreaSize
<1>3. B(n + 1) = a /\ M(n + 1) = m /\ B(n + 2) = h /\ M(n + 2) = t
  BY <1>1 DEF AreaBegin, AreaSize
<1>4. h \in Nat /\ HeapEnd(D) \in Nat /\ h + t <= HeapEnd(D) /\ h + t <= a
  BY HeapLiesBetween DEF TlsFits
<1>5. ASSUME NEW i \in 1..n
      PROVE  B(i) + M(i) < a /\ AreDisjoint(B(i), M(i), h, t)
  <2> DEFINE s == D.sections[i]
  <2>1. s \in Sections(D) /\ SectionEnd(s) = B(i) + M(i) /\ s.start = B(i)
    BY <1>2 DEF Sections, SectionEnd
  <2> HIDE DEF s
  <2>2. SectionEnd(s) < a
    BY <2>1 DEF StackFits
  <2>3. CASE s \in OfExecutable(D)
    <3>1. SectionEnd(s) <= h
      BY <2>3, HeapLiesBetween
    <3> QED BY <2>1, <2>2, <3>1 DEF AreDisjoint
  <2>4. CASE s \notin OfExecutable(D)
    <3>1. HeapEnd(D) <= s.start
      BY <2>1, <2>4, HeapLiesBetween
    <3>2. B(i) \in Nat
      BY <1>1, <1>2
    <3> QED BY <1>1, <1>4, <2>1, <2>2, <3>1, <3>2 DEF AreDisjoint
  <2> QED BY <2>3, <2>4
<1> HIDE DEF B, M, h, t, a, m
<1>6. \A i \in 1..(n + 2) : i \in 1..n \/ i = n + 1 \/ i = n + 2
  BY <1>1
<1>7. ASSUME NEW i \in 1..(n + 2)
      PROVE  B(i) \in Int /\ M(i) \in Nat /\ M(i) > 0
  <2>1. CASE i \in 1..n
    BY <1>1, <1>2, <2>1
  <2>2. CASE i = n + 1
    BY <1>1, <1>3, <2>2
  <2>3. CASE i = n + 2
    BY <1>1, <1>3, <1>4, <2>3
  <2> QED BY <1>6, <2>1, <2>2, <2>3
<1>8. ASSUME NEW i \in 1..(n + 2), NEW j \in 1..(n + 2), i # j
      PROVE  AreDisjoint(B(i), M(i), B(j), M(j))
  <2>1. CASE i \in 1..n /\ j \in 1..n
    BY <1>1, <1>2, <1>8, <2>1
  <2>2. CASE i \in 1..n /\ j = n + 1
    BY <1>1, <1>3, <1>5, <1>7, <2>2 DEF AreDisjoint
  <2>3. CASE i \in 1..n /\ j = n + 2
    BY <1>3, <1>5, <2>3 DEF AreDisjoint
  <2>4. CASE i = n + 1 /\ j \in 1..n
    BY <1>1, <1>3, <1>5, <1>7, <2>4 DEF AreDisjoint
  <2>5. CASE i = n + 2 /\ j \in 1..n
    BY <1>3, <1>5, <2>5 DEF AreDisjoint
  <2>6. CASE {i, j} = {n + 1, n + 2}
    BY <1>1, <1>3, <1>4, <1>8, <2>6 DEF AreDisjoint
  <2> QED BY <1>6, <1>8, <2>1, <2>2, <2>3, <2>4, <2>5, <2>6
<1> QED BY <1>7, <1>8 DEF AreasLieApart, NumAreas, B, M, n

-----------------------------------------------------------------------------
(* The template of the thread-local storage has a length *)

\* A sequence of some length.
HasLength(w) == IsSeq(w, Len(w))

\* What has a length is a sequence, and the other way round.
LEMMA LengthOfSeq ==
  ASSUME NEW S, NEW w
  PROVE  /\ w \in Seq(S) => HasLength(w)
         /\ HasLength(w) /\ (\A i \in 1..Len(w) : w[i] \in S) => w \in Seq(S)
<1>1. ASSUME w \in Seq(S) PROVE HasLength(w)
  BY <1>1 DEF HasLength, IsSeq
<1>2. ASSUME HasLength(w), \A i \in 1..Len(w) : w[i] \in S PROVE w \in Seq(S)
  <2> DEFINE n == Len(w)
  <2>1. n \in Nat /\ w = [i \in 1..n |-> w[i]]
    BY <1>2 DEF HasLength, IsSeq
  <2>2. w \in [1..n -> S]
    BY <1>2, <2>1
  <2> HIDE DEF n
  <2> QED BY <2>1, <2>2
<1> QED BY <1>1, <1>2

\* One sequence behind another.
LEMMA ConcatHasLength ==
  ASSUME NEW v, NEW w, HasLength(v), HasLength(w)
  PROVE  HasLength(v \o w) /\ Len(v \o w) = Len(v) + Len(w)
<1> DEFINE S == {v[i] : i \in 1..Len(v)} \cup {w[i] : i \in 1..Len(w)}
<1>1. v \in Seq({v[i] : i \in 1..Len(v)}) /\ w \in Seq({w[i] : i \in 1..Len(w)})
  BY SeqFacts DEF HasLength
<1>2. v \in Seq(S) /\ w \in Seq(S)
  BY <1>1
<1> HIDE DEF S
<1>3. v \o w \in Seq(S) /\ Len(v \o w) = Len(v) + Len(w)
  BY <1>2
<1> QED BY <1>3, LengthOfSeq

\* A sequence made of two, and its elements.
IsJoin(c, v, w) == c = v \o w

HasElements(c, v, w) ==
  /\ \A i \in 1..Len(v) : c[i] = v[i]
  /\ \A j \in 1..Len(w) : c[Len(v) + j] = w[j]

LEMMA ConcatElements ==
  ASSUME NEW v, NEW w, HasLength(v), HasLength(w), NEW c, IsJoin(c, v, w)
  PROVE  HasElements(c, v, w)
<1> DEFINE S == {v[i] : i \in 1..Len(v)} \cup {w[i] : i \in 1..Len(w)}
<1>1. (\A i \in 1..Len(v) : v[i] \in S) /\ (\A i \in 1..Len(w) : w[i] \in S)
  OBVIOUS
<1> HIDE DEF S
<1>2. v \in Seq(S) /\ w \in Seq(S)
  BY <1>1, LengthOfSeq
<1> QED BY <1>2 DEF IsJoin, HasElements

\* What is tabulated up to a number, which may be below 1.
LEMMA TabulatedHasLength ==
  ASSUME NEW n \in Int, NEW f, f = [i \in 1..n |-> f[i]]
  PROVE  HasLength(Tuple(f)) /\ (n \in Nat => Len(Tuple(f)) = n)
<1>1. CASE n \in Nat
  <2>1. IsSeq(f, n)
    BY <1>1 DEF IsSeq
  <2>2. Tuple(f) = f /\ Len(f) = n
    BY <2>1, TupleIsWord, SeqFacts
  <2> QED BY <2>1, <2>2 DEF HasLength
<1>2. CASE n \notin Nat
  <2>1. 1..n = 1..0
    BY <1>2
  <2>2. IsSeq(f, 0)
    BY <2>1 DEF IsSeq
  <2>3. Tuple(f) = f /\ Len(f) = 0
    BY <2>2, TupleIsWord, SeqFacts
  <2> QED BY <1>2, <2>2, <2>3 DEF HasLength
<1> QED BY <1>1, <1>2

\* Sequences joined to one.
LEMMA JoinedHasLength ==
  ASSUME NEW n \in Nat, NEW strings, IsSeq(strings, n), \A i \in 1..n : HasLength(strings[i])
  PROVE  HasLength(Joined(strings))
<1> DEFINE X == UNION {{strings[i][k] : k \in 1..Len(strings[i])} : i \in 1..n}
           S == Seq(X)
           next(i, x) == x \o strings[i]
           Step(A, i) == IF i = 0 THEN << >> ELSE next(i, A[i - 1])
           C == CHOOSE A : A = [i \in 0..n |-> Step(A, i)]
           step == [i \in 1..n |-> [x \in S |-> next(i, x)]]
<1>1. Len(strings) = n
  BY SeqFacts
<1>2. Joined(strings) = C[n]
  BY <1>1 DEF Joined
<1>3. \A i \in 1..n : \A x \in S : next(i, x) \in S
  <2>1. TAKE i \in 1..n
  <2>2. \A k \in 1..Len(strings[i]) : strings[i][k] \in X
    OBVIOUS
  <2> HIDE DEF X
  <2>3. strings[i] \in Seq(X)
    BY <2>2, LengthOfSeq
  <2> QED BY <2>3
<1>4. << >> \in S
  <2> HIDE DEF X
  <2> QED OBVIOUS
<1>5. \A i \in 1..n : \A x \in S : step[i][x] = next(i, x)
  <2> HIDE DEF next, S
  <2> QED OBVIOUS
<1> HIDE DEF step, next
<1>6. PICK f : Unfolds(n, S, << >>, step, f)
  <2> HIDE DEF S
  <2> QED BY <1>3, <1>4, <1>5, UnfoldingExists
<1>7. f = [i \in 0..n |-> Step(f, i)]
  <2> HIDE DEF S
  <2>1. /\ f = [i \in 0..n |-> f[i]] /\ f[0] = << >>
        /\ \A i \in 1..n : f[i - 1] \in S /\ f[i] = step[i][f[i - 1]]
    BY <1>6, UnfoldingIs
  <2>2. ASSUME NEW i \in 1..n PROVE f[i] = next(i, f[i - 1])
    BY <1>5, <2>1
  <2>3. ASSUME NEW i \in 0..n PROVE f[i] = Step(f, i)
    <3>1. CASE i = 0
      BY <2>1, <3>1
    <3>2. CASE i # 0
      <4>1. i \in 1..n
        BY <3>2
      <4> QED BY ONLY <2>2, <3>2, <4>1
    <3> QED BY <3>1, <3>2
  <2> HIDE DEF Step
  <2> QED BY <2>1, <2>3
<1>8. C = [i \in 0..n |-> Step(C, i)]
  <2> HIDE DEF Step
  <2> QED BY <1>7
<1> HIDE DEF C
<1>9. C[0] = << >> /\ \A i \in 1..n : C[i] = next(i, C[i - 1])
  BY <1>8
<1>10. \A i \in 0..n : C[i] \in S
  <2>1. C[0] \in S
    BY <1>4, <1>9
  <2> HIDE DEF S
  <2>2. ASSUME NEW i \in 1..n, C[i - 1] \in S PROVE C[i] \in S
    BY <1>3, <1>9, <2>2
  <2> QED BY <2>1, <2>2, StaysIn
<1>11. C[n] \in Seq(X)
  BY <1>10
<1> HIDE DEF X
<1> QED BY <1>2, <1>11, LengthOfSeq

\* The data of a module, ...
LEMMA ModuleDataHasLength ==
  ASSUME LoaderInv, IsLoaded, NEW m \in 1..NumModules(LoadedImage)
  PROVE  HasLength(ModuleData(LoadedImage, m))
<1> DEFINE D == LoadedImage
           tls == D.files[m].tls
           size == tls.end - tls.start
           aligned == tls.align * ((size + tls.align - 1) \div tls.align)
           k == tls.image - tls.start
           image == [i \in 1..k |-> ImageByte(D, tls.start + i - 1)]
           zeros == [i \in 1..(aligned - k) |-> 0]
<1>1. Len(load.files) \in Nat
  BY DEF LoaderInv, FilesStand, IsInjectiveSeq
<1>2. NumModules(D) = Len(load.files) /\ tls = load.tls[load.files[m]]
  <2> DEFINE files == [i \in 1..Len(load.files) |->
                         [executable |-> ~IsLibrary(load.files[i]), tls |-> load.tls[load.files[i]]]]
  <2>1. D.files = files
    BY DEF LoadedImage
  <2>2. Len(files) = Len(load.files)
    BY <1>1
  <2> HIDE DEF D, files
  <2>3. m \in 1..Len(load.files) /\ NumModules(D) = Len(load.files)
    BY <2>1, <2>2 DEF NumModules, D
  <2>4. files[m].tls = load.tls[load.files[m]]
    BY <2>3 DEF files
  <2> QED BY <2>1, <2>3, <2>4
<1>3. load.files[m] \in DOMAIN load.tls
  <2>1. load.frames = << >> /\ TlsIsKnown(load.files, load.frames, load.tls)
    BY DEF LoaderInv, TlsStands, IsLoaded
  <2>2. m \in 1..Len(load.files) /\ 1..Len(<< >>) = {}
    BY <1>2
  <2> QED BY <2>1, <2>2 DEF TlsIsKnown
<1>4. tls # NoTls => {tls.start, tls.image, tls.end} \subseteq Int /\ tls.align \in Nat \ {0}
  BY <1>2, <1>3 DEF LoaderInv, TlsStands, IsTls
<1> HIDE DEF D
<1>5. ModuleData(D, m) = IF tls = NoTls THEN << >> ELSE Tuple(image) \o Zeros(aligned - k)
  BY DEF ModuleData
<1> HIDE DEF tls
<1>6. CASE tls = NoTls
  BY <1>5, <1>6 DEF HasLength, IsSeq, D
<1>7. CASE tls # NoTls
  <2>1. k \in Int /\ aligned \in Int /\ aligned - k \in Int
    BY <1>4, <1>7
  <2> HIDE DEF k, aligned
  <2>2. HasLength(Tuple(image))
    <3>1. image = [i \in 1..k |-> image[i]]
      OBVIOUS
    <3> HIDE DEF image
    <3> QED BY <2>1, <3>1, TabulatedHasLength
  <2>3. HasLength(Zeros(aligned - k))
    <3>1. zeros = [i \in 1..(aligned - k) |-> zeros[i]] /\ Zeros(aligned - k) = Tuple(zeros)
      BY DEF Zeros
    <3> HIDE DEF zeros
    <3> QED BY <2>1, <3>1, TabulatedHasLength
  <2> HIDE DEF image
  <2> QED BY <1>5, <1>7, <2>2, <2>3, ConcatHasLength DEF D
<1> QED BY <1>6, <1>7

\* ... and so that of all modules of a scheme, ...
LEMMA DataHaveLength ==
  ASSUME LoaderInv, IsLoaded, NEW static
  PROVE  HasLength(DataUpTo(LoadedImage, NumModules(LoadedImage), static))
<1> DEFINE D == LoadedImage
           n == NumModules(D)
           data(i) == IF IsStatic(D, i) = static THEN ModuleData(D, i) ELSE << >>
           strings == [i \in 1..n |-> data(i)]
<1>1. n \in Nat
  <2>1. Len(load.files) \in Nat
    BY DEF LoaderInv, FilesStand, IsInjectiveSeq
  <2>2. D.files = [i \in 1..Len(load.files) |->
                     [executable |-> ~IsLibrary(load.files[i]), tls |-> load.tls[load.files[i]]]]
    BY DEF LoadedImage
  <2> HIDE DEF D
  <2> QED BY <2>1, <2>2 DEF NumModules
<1>2. \A i \in 1..n : HasLength(data(i))
  <2>1. HasLength(<< >>)
    BY DEF HasLength, IsSeq
  <2> HIDE DEF D
  <2> QED BY <2>1, ModuleDataHasLength DEF D
<1>3. DataUpTo(D, n, static) = Joined(strings)
  BY DEF DataUpTo
<1> HIDE DEF D, n, data
<1>4. IsSeq(strings, n) /\ \A i \in 1..n : strings[i] = data(i)
  BY <1>1 DEF IsSeq
<1> HIDE DEF strings
<1>5. HasLength(Joined(strings))
  BY <1>1, <1>2, <1>4, JoinedHasLength
<1> QED BY <1>3, <1>5 DEF D, n

\* ... the thread control block, which is not empty, ...
LEMMA TcbHasLength ==
  ASSUME NEW D
  PROVE  HasLength(Tcb(D)) /\ Len(Tcb(D)) > 0
<1>1. \A v : HasLength(LittleEndian(v)) /\ Len(LittleEndian(v)) = 8
  <2>1. TAKE v
  <2>2. IsSeq(LittleEndian(v), 8)
    BY WordLength, ReversedBytes DEF LittleEndian
  <2> QED BY <2>2, SeqFacts DEF HasLength
<1>2. HasLength(Zeros(TcbSize - 24)) /\ Len(Zeros(TcbSize - 24)) \in Nat
  <2>1. TcbSize - 24 \in Nat
    BY DescriptorAssumption
  <2>2. IsSeq(Zeros(TcbSize - 24), TcbSize - 24)
    BY <2>1, ZerosLength
  <2> QED BY <2>1, <2>2, SeqFacts DEF HasLength
<1> DEFINE u == LittleEndian(TcbBegin(D))
           v == LittleEndian(TcbEnd(D))
           z == Zeros(TcbSize - 24)
<1>3. Tcb(D) = u \o v \o u \o z
  BY DEF Tcb
<1>4. HasLength(u) /\ HasLength(v) /\ HasLength(z) /\ Len(u) = 8 /\ Len(v) = 8 /\ Len(z) \in Nat
  BY <1>1, <1>2
<1> HIDE DEF u, v, z
<1>5. HasLength(u \o v) /\ Len(u \o v) = Len(u) + Len(v)
  BY <1>4, ConcatHasLength
<1>6. HasLength(u \o v \o u) /\ Len(u \o v \o u) = Len(u \o v) + Len(u)
  BY <1>4, <1>5, ConcatHasLength
<1>7. HasLength(u \o v \o u \o z) /\ Len(u \o v \o u \o z) = Len(u \o v \o u) + Len(z)
  BY <1>4, <1>6, ConcatHasLength
<1>8. Len(Tcb(D)) = 24 + Len(z)
  BY <1>3, <1>4, <1>5, <1>6, <1>7
<1> QED BY <1>3, <1>4, <1>7, <1>8

\* ... the table of modules, ...
LEMMA TableHasLength ==
  ASSUME NEW D, NumModules(D) \in Nat
  PROVE  HasLength(Table(D))
<1>1. \A v : HasLength(LittleEndian(v))
  <2>1. TAKE v
  <2>2. IsSeq(LittleEndian(v), 8)
    BY WordLength, ReversedBytes DEF LittleEndian
  <2> QED BY <2>2, SeqFacts DEF HasLength
<1>2. HasLength(Zeros(16))
  <2>1. IsSeq(Zeros(16), 16)
    BY ZerosLength
  <2> QED BY <2>1, SeqFacts DEF HasLength
<1>3. ASSUME NEW m PROVE HasLength(TableEntry(D, m))
  <2> DEFINE u == LittleEndian(OffsetOf(D, m))
             v == LittleEndian(IF IsStatic(D, m) THEN 1 ELSE 0)
  <2>1. TableEntry(D, m) = Zeros(16) \/ TableEntry(D, m) = u \o v
    BY DEF TableEntry
  <2>2. HasLength(u) /\ HasLength(v)
    BY <1>1
  <2> HIDE DEF u, v
  <2> QED BY <1>2, <2>1, <2>2, ConcatHasLength
<1> DEFINE n == NumModules(D) + 1
           strings == [i \in 1..n |-> TableEntry(D, i - 1)]
<1>4. Table(D) = Joined(strings) /\ n \in Nat
  BY DEF Table
<1> HIDE DEF n
<1>5. IsSeq(strings, n) /\ \A i \in 1..n : HasLength(strings[i])
  BY <1>3, <1>4 DEF IsSeq
<1> HIDE DEF strings
<1> QED BY <1>4, <1>5, JoinedHasLength

\* ... and the template, whatever is in it.
LEMMA TlsHasLength ==
  ASSUME LoaderInv, IsLoaded
  PROVE  HasLength(TlsContent(LoadedImage)) /\ Len(TlsContent(LoadedImage)) > 0
<1> DEFINE D == LoadedImage
           a == DataUpTo(D, NumModules(D), TRUE)
           b == Tcb(D)
           c == Table(D)
           d == Zeros(Reserve)
           e == DataUpTo(D, NumModules(D), FALSE)
<1>1. HasLength(a) /\ HasLength(e)
  BY DataHaveLength
<1>2. NumModules(D) \in Nat
  <2>1. Len(load.files) \in Nat
    BY DEF LoaderInv, FilesStand, IsInjectiveSeq
  <2>2. D.files = [i \in 1..Len(load.files) |->
                     [executable |-> ~IsLibrary(load.files[i]), tls |-> load.tls[load.files[i]]]]
    BY DEF LoadedImage
  <2> HIDE DEF D
  <2> QED BY <2>1, <2>2 DEF NumModules
<1> HIDE DEF D
<1>3. HasLength(b) /\ Len(b) > 0 /\ HasLength(c)
  BY <1>2, TcbHasLength, TableHasLength
<1>4. HasLength(d)
  <2>1. IsSeq(d, Reserve)
    BY DescriptorAssumption, ZerosLength
  <2> QED BY <2>1, SeqFacts DEF HasLength
<1>5. TlsContent(D) = a \o b \o c \o d \o e
  BY DEF TlsContent
<1> HIDE DEF a, b, c, d, e
<1>6. {Len(a), Len(b), Len(c), Len(d), Len(e)} \subseteq Nat
  BY <1>1, <1>3, <1>4 DEF HasLength, IsSeq
<1>7. HasLength(a \o b) /\ Len(a \o b) = Len(a) + Len(b)
  BY <1>1, <1>3, ConcatHasLength
<1>8. HasLength(a \o b \o c) /\ Len(a \o b \o c) = Len(a) + Len(b) + Len(c)
  BY <1>3, <1>7, ConcatHasLength
<1>9. HasLength(a \o b \o c \o d) /\ Len(a \o b \o c \o d) = Len(a) + Len(b) + Len(c) + Len(d)
  BY <1>4, <1>8, ConcatHasLength
<1>10. HasLength(TlsContent(D)) /\ Len(TlsContent(D)) = Len(a) + Len(b) + Len(c) + Len(d) + Len(e)
  BY <1>1, <1>5, <1>9, ConcatHasLength
<1> QED BY <1>3, <1>6, <1>10 DEF D

\* So an image the loader leaves is sound.
LEMMA ImageIsSound ==
  ASSUME LoaderInv, IsLoaded
  PROVE  IsSound(LoadedImage)
<1> DEFINE D == LoadedImage
<1>1. Len(D.sections) \in Nat
  BY ImageIs
<1>2. D.stackSize = 0
  BY DEF LoadedImage
<1>3. Len(TlsContent(D)) \in Nat /\ Len(TlsContent(D)) > 0
  BY TlsHasLength DEF HasLength, IsSeq
<1>4. /\ \A i \in 1..Len(D.sections) : /\ D.sections[i].start \in Nat
                                       /\ Len(D.sections[i].data) \in Nat /\ Len(D.sections[i].data) > 0
      /\ \A i, j \in 1..Len(D.sections) :
           i # j => AreDisjoint(D.sections[i].start, Len(D.sections[i].data),
                                D.sections[j].start, Len(D.sections[j].data))
  BY ImageLiesApart
<1> HIDE DEF D
<1>5. StackSize(D) \in Nat /\ StackSize(D) > 0 /\ StackBegin(D) \in Int
  BY <1>2, DescriptorAssumption DEF StackSize, StackBegin
<1> QED BY <1>1, <1>3, <1>4, <1>5 DEF IsSound, D

-----------------------------------------------------------------------------
(* Code that enters no blocks *)

\* What such code is put together from: S, what may stand anywhere, and L, what
\* leaves a loop and stands in its body only.
Harmless(S, L) ==
  /\ \A x \in S :
       \/ IsInstruction(x) /\ x.gik # "REG:=MEM STATIC"
       \/ x.gik = "call" /\ x.component \in Seq(S)
       \/ x.gik \in {"loop", "again"} /\ x.body \in Seq(S \cup L) /\ [x EXCEPT !.gik = "again"] \in S
       \/ x.gik = "branch" /\ x.zero \in Seq(S) /\ x.other \in Seq(S)
  /\ \A x \in L : x.gik = "break" \/ (x.gik = "branch" /\ x.zero \in Seq(S \cup L) /\ x.other \in Seq(S \cup L))

IsHarmless(x) == \E S, L : Harmless(S, L) /\ x \in S

\* A component that may be called anywhere.
EntersNothing(c) == HasLength(c) /\ \A i \in 1..Len(c) : IsHarmless(c[i])

\* What is left of such code: behind what leaves a loop there is the loop's again.
LeadsOn(S, L, c) ==
  /\ c \in Seq(S \cup L)
  /\ \A i \in 1..Len(c) : c[i] \in S \/ \E j \in (i + 1)..Len(c) : c[j].gik = "again"

\* Such sets may be taken together.
LEMMA HarmlessTogether ==
  ASSUME NEW n, NEW A, NEW B, \A i \in 1..n : Harmless(A[i], B[i]), NEW S, NEW L,
         \A i \in 1..n : A[i] \subseteq S /\ B[i] \subseteq L,
         \A x \in S : \E i \in 1..n : x \in A[i], \A x \in L : \E i \in 1..n : x \in B[i]
  PROVE  Harmless(S, L)
<1>1. \A i \in 1..n : A[i] \subseteq S /\ A[i] \cup B[i] \subseteq S \cup L
  OBVIOUS
<1>2. (\A x \in S : \E i \in 1..n : x \in A[i]) /\ (\A x \in L : \E i \in 1..n : x \in B[i])
  OBVIOUS
<1>3. \A i \in 1..n : \A c : (c \in Seq(A[i]) => c \in Seq(S)) /\ (c \in Seq(A[i] \cup B[i]) => c \in Seq(S \cup L))
  BY <1>1
<1>4. ASSUME NEW x \in S
      PROVE  \/ IsInstruction(x) /\ x.gik # "REG:=MEM STATIC"
             \/ x.gik = "call" /\ x.component \in Seq(S)
             \/ x.gik \in {"loop", "again"} /\ x.body \in Seq(S \cup L) /\ [x EXCEPT !.gik = "again"] \in S
             \/ x.gik = "branch" /\ x.zero \in Seq(S) /\ x.other \in Seq(S)
  <2>1. PICK i \in 1..n : x \in A[i]
    BY <1>2
  <2>2. \/ IsInstruction(x) /\ x.gik # "REG:=MEM STATIC"
        \/ x.gik = "call" /\ x.component \in Seq(A[i])
        \/ x.gik \in {"loop", "again"} /\ x.body \in Seq(A[i] \cup B[i]) /\ [x EXCEPT !.gik = "again"] \in A[i]
        \/ x.gik = "branch" /\ x.zero \in Seq(A[i]) /\ x.other \in Seq(A[i])
    BY <2>1 DEF Harmless
  <2> QED BY <1>1, <1>3, <2>2
<1>5. ASSUME NEW x \in L
      PROVE  x.gik = "break" \/ (x.gik = "branch" /\ x.zero \in Seq(S \cup L) /\ x.other \in Seq(S \cup L))
  <2>1. PICK i \in 1..n : x \in B[i]
    BY <1>2
  <2>2. x.gik = "break" \/ (x.gik = "branch" /\ x.zero \in Seq(A[i] \cup B[i]) /\ x.other \in Seq(A[i] \cup B[i]))
    BY <2>1 DEF Harmless
  <2> QED BY <1>3, <2>2
<1> QED BY <1>4, <1>5 DEF Harmless

\* So a component is put together from one such set.
LEMMA HarmlessComponent ==
  ASSUME NEW c, EntersNothing(c)
  PROVE  \E S, L : Harmless(S, L) /\ c \in Seq(S)
<1> DEFINE n == Len(c)
           P(i) == CHOOSE p : Harmless(p[1], p[2]) /\ c[i] \in p[1]
           A == [i \in 1..n |-> P(i)[1]]
           B == [i \in 1..n |-> P(i)[2]]
           S == UNION {A[i] : i \in 1..n}
           L == UNION {B[i] : i \in 1..n}
<1>1. ASSUME NEW i \in 1..n PROVE Harmless(P(i)[1], P(i)[2]) /\ c[i] \in P(i)[1]
  <2>1. PICK T1, M1 : Harmless(T1, M1) /\ c[i] \in T1
    BY DEF EntersNothing, IsHarmless
  <2> DEFINE q == <<T1, M1>>
  <2>2. q[1] = T1 /\ q[2] = M1
    OBVIOUS
  <2> HIDE DEF q
  <2>3. Harmless(q[1], q[2]) /\ c[i] \in q[1]
    BY <2>1, <2>2
  <2>4. \E p : Harmless(p[1], p[2]) /\ c[i] \in p[1]
    BY <2>3
  <2> QED BY <2>4
<1> HIDE DEF P
<1>2. \A i \in 1..n : Harmless(A[i], B[i]) /\ c[i] \in A[i]
  BY <1>1
<1> HIDE DEF A, B
<1>3. /\ \A i \in 1..n : A[i] \subseteq S /\ B[i] \subseteq L
      /\ (\A x \in S : \E i \in 1..n : x \in A[i]) /\ (\A x \in L : \E i \in 1..n : x \in B[i])
  OBVIOUS
<1>4. \A i \in 1..n : c[i] \in S
  BY <1>2
<1> HIDE DEF S, L
<1>5. Harmless(S, L)
  BY <1>2, <1>3, HarmlessTogether
<1>6. c \in Seq(S)
  BY <1>4, LengthOfSeq DEF EntersNothing
<1> QED BY <1>5, <1>6

\* And the other way round.
LEMMA HarmlessIsComponent ==
  ASSUME NEW S, NEW L, Harmless(S, L), NEW c \in Seq(S)
  PROVE  EntersNothing(c)
<1>1. HasLength(c)
  BY LengthOfSeq
<1>2. \A i \in 1..Len(c) : c[i] \in S
  OBVIOUS
<1> QED BY <1>1, <1>2 DEF EntersNothing, IsHarmless

\* Two such sets.
LEMMA BothAreHarmless ==
  ASSUME NEW S, NEW L, NEW R, NEW K, Harmless(S, L), Harmless(R, K)
  PROVE  Harmless(S \cup R, L \cup K)
<1> DEFINE A == <<S, R>>
           B == <<L, K>>
<1>1. A[1] = S /\ A[2] = R /\ B[1] = L /\ B[2] = K /\ \A i \in 1..2 : i = 1 \/ i = 2
  OBVIOUS
<1> HIDE DEF A, B
<1>2. \A i \in 1..2 : Harmless(A[i], B[i])
  BY <1>1
<1> DEFINE T1 == S \cup R
           U == L \cup K
<1>3. /\ \A i \in 1..2 : A[i] \subseteq T1 /\ B[i] \subseteq U
      /\ (\A x \in T1 : \E i \in 1..2 : x \in A[i]) /\ (\A x \in U : \E i \in 1..2 : x \in B[i])
  <2>1. 1 \in 1..2 /\ 2 \in 1..2
    OBVIOUS
  <2> QED BY <1>1, <2>1
<1> HIDE DEF T1, U
<1>4. Harmless(T1, U)
  BY <1>2, <1>3, HarmlessTogether
<1> QED BY <1>4 DEF T1, U

\* An instruction, ...
LEMMA InstructionIsHarmless ==
  ASSUME NEW x, IsInstruction(x), x.gik # "REG:=MEM STATIC"
  PROVE  IsHarmless(x)
<1> DEFINE S == {x}
           L == {}
<1>1. Harmless(S, L)
  BY DEF Harmless
<1> QED BY <1>1 DEF IsHarmless

\* ... the call of a component, ...
LEMMA CallIsHarmless ==
  ASSUME NEW c, EntersNothing(c)
  PROVE  IsHarmless(Call(c))
<1>1. PICK S, L : Harmless(S, L) /\ c \in Seq(S)
  BY HarmlessComponent
<1> DEFINE x == Call(c)
           R == S \cup {x}
<1>2. x.gik = "call" /\ x.component = c
  BY DEF Call
<1>3. \A d : (d \in Seq(S) => d \in Seq(R)) /\ (d \in Seq(S \cup L) => d \in Seq(R \cup L))
  <2>1. S \subseteq R /\ S \cup L \subseteq R \cup L
    OBVIOUS
  <2> HIDE DEF R
  <2> QED BY <2>1
<1> HIDE DEF x
<1>4. S \subseteq R /\ \A y \in R : y \in S \/ y = x
  OBVIOUS
<1> HIDE DEF R
<1>5. Harmless(R, L)
  BY <1>1, <1>2, <1>3, <1>4 DEF Harmless
<1> QED BY <1>5 DEF IsHarmless, R, x

\* ... and a loop, whose body may leave it.
LEMMA LoopIsHarmless ==
  ASSUME NEW S, NEW L, Harmless(S, L), NEW body \in Seq(S \cup L)
  PROVE  IsHarmless(Loop(body))
<1> DEFINE x == Loop(body)
           again == [x EXCEPT !.gik = "again"]
           R == S \cup {x, again}
<1>1. /\ x.gik = "loop" /\ x.body = body
      /\ again.gik = "again" /\ again.body = body /\ [again EXCEPT !.gik = "again"] = again
  BY DEF Loop
<1>2. \A d : (d \in Seq(S) => d \in Seq(R)) /\ (d \in Seq(S \cup L) => d \in Seq(R \cup L))
  <2>1. S \subseteq R /\ S \cup L \subseteq R \cup L
    OBVIOUS
  <2> HIDE DEF R
  <2> QED BY <2>1
<1>3. S \subseteq R /\ again \in R /\ x \in R /\ \A y \in R : y \in S \/ y = x \/ y = again
  OBVIOUS
<1>4. again = [x EXCEPT !.gik = "again"]
  OBVIOUS
<1> HIDE DEF R, again, x
<1>5. Harmless(R, L)
  <2>1. ASSUME NEW y \in S
        PROVE  \/ IsInstruction(y) /\ y.gik # "REG:=MEM STATIC"
               \/ y.gik = "call" /\ y.component \in Seq(R)
               \/ y.gik \in {"loop", "again"} /\ y.body \in Seq(R \cup L) /\ [y EXCEPT !.gik = "again"] \in R
               \/ y.gik = "branch" /\ y.zero \in Seq(R) /\ y.other \in Seq(R)
    BY <1>2, <1>3 DEF Harmless
  <2>2. \A y \in {x, again} : /\ y.gik \in {"loop", "again"} /\ y.body \in Seq(R \cup L)
                              /\ [y EXCEPT !.gik = "again"] \in R
    BY <1>1, <1>2, <1>3, <1>4
  <2>3. \A y \in L : y.gik = "break" \/ (y.gik = "branch" /\ y.zero \in Seq(R \cup L) /\ y.other \in Seq(R \cup L))
    BY <1>2 DEF Harmless
  <2> QED BY <1>3, <2>1, <2>2, <2>3 DEF Harmless
<1> QED BY <1>3, <1>5 DEF IsHarmless, x

\* The branching at which a loop is left.
LEMMA LeavingIsHarmless ==
  ASSUME NEW S, NEW L, Harmless(S, L), NEW n, NEW a
  PROVE  Harmless(S, L \cup {Break, Branch(n, a, <<Break>>, << >>)})
<1> DEFINE b == Branch(n, a, <<Break>>, << >>)
           M1 == L \cup {Break, b}
<1>1. b.gik = "branch" /\ b.zero = <<Break>> /\ b.other = << >> /\ Break.gik = "break"
  BY DEF Branch, Break
<1>2. \A y \in M1 : y \in L \/ y = Break \/ y = b
  OBVIOUS
<1>3. \A d : d \in Seq(S \cup L) => d \in Seq(S \cup M1)
  <2>1. S \cup L \subseteq S \cup M1
    OBVIOUS
  <2> HIDE DEF M1
  <2> QED BY <2>1
<1>4. <<Break>> \in Seq(S \cup M1) /\ << >> \in Seq(S \cup M1)
  <2>1. Break \in S \cup M1
    OBVIOUS
  <2> HIDE DEF M1
  <2> QED BY <2>1
<1> HIDE DEF M1, b
<1>5. Harmless(S, M1)
  <2>1. ASSUME NEW y \in S
        PROVE  \/ IsInstruction(y) /\ y.gik # "REG:=MEM STATIC"
               \/ y.gik = "call" /\ y.component \in Seq(S)
               \/ y.gik \in {"loop", "again"} /\ y.body \in Seq(S \cup M1) /\ [y EXCEPT !.gik = "again"] \in S
               \/ y.gik = "branch" /\ y.zero \in Seq(S) /\ y.other \in Seq(S)
    BY <1>3 DEF Harmless
  <2>2. ASSUME NEW y \in M1
        PROVE  y.gik = "break" \/ (y.gik = "branch" /\ y.zero \in Seq(S \cup M1) /\ y.other \in Seq(S \cup M1))
    BY <1>1, <1>2, <1>3, <1>4 DEF Harmless
  <2> QED BY <2>1, <2>2 DEF Harmless
<1> QED BY <1>5 DEF M1, b

\* The two kinds of loops of the prologue.
LEMMA LoopsAreHarmless ==
  ASSUME NEW body, EntersNothing(body), NEW n, NEW a
  PROVE  /\ IsHarmless(LoopWhile(n, a, body))
         /\ \A result, b : IsHarmless(LoopUntilEqual(n, result, a, b, body))
<1>1. ASSUME NEW r, NEW c, EntersNothing(c)
      PROVE  \E S, L : /\ Harmless(S, L) /\ c \in Seq(S \cup L)
                       /\ Branch(n, r, <<Break>>, << >>) \in S \cup L
  <2>1. PICK S, L : Harmless(S, L) /\ c \in Seq(S)
    BY <1>1, HarmlessComponent
  <2> DEFINE M1 == L \cup {Break, Branch(n, r, <<Break>>, << >>)}
  <2>2. Harmless(S, M1) /\ Branch(n, r, <<Break>>, << >>) \in S \cup M1
    BY <2>1, LeavingIsHarmless
  <2>3. S \subseteq S \cup M1
    OBVIOUS
  <2> HIDE DEF M1
  <2>4. c \in Seq(S \cup M1)
    BY <2>1, <2>3
  <2> QED BY <2>2, <2>4
<1>2. IsHarmless(LoopWhile(n, a, body))
  <2> DEFINE x == Branch(n, a, <<Break>>, << >>)
  <2>1. PICK S, L : Harmless(S, L) /\ body \in Seq(S \cup L) /\ x \in S \cup L
    BY <1>1
  <2> HIDE DEF x
  <2>2. Append(body, x) \in Seq(S \cup L)
    BY <2>1
  <2> QED BY <2>1, <2>2, LoopIsHarmless DEF LoopWhile, x
<1>3. ASSUME NEW result, NEW b PROVE IsHarmless(LoopUntilEqual(n, result, a, b, body))
  <2> DEFINE x == Branch(n, result, <<Break>>, << >>)
             y == XorReg(n, result, a, b)
  <2>1. IsHarmless(y)
    <3>1. IsInstruction(y) /\ y.gik # "REG:=MEM STATIC"
      BY DEF IsInstruction, XorReg
    <3> QED BY <3>1, InstructionIsHarmless
  <2>2. PICK S, L : Harmless(S, L) /\ body \in Seq(S \cup L) /\ x \in S \cup L
    BY <1>1
  <2>3. PICK R, K : Harmless(R, K) /\ y \in R
    BY <2>1 DEF IsHarmless
  <2>4. Harmless(S \cup R, L \cup K)
    BY <2>2, <2>3, BothAreHarmless
  <2> HIDE DEF x, y
  <2> DEFINE all == (S \cup R) \cup (L \cup K)
  <2>5. S \cup L \subseteq all /\ x \in all /\ y \in all
    BY <2>2, <2>3
  <2> HIDE DEF all
  <2>6. <<y, x>> \o body \in Seq(all)
    BY <2>2, <2>5
  <2> QED BY <2>4, <2>6, LoopIsHarmless DEF LoopUntilEqual, x, y, all
<1> QED BY <1>2, <1>3

\* Components one behind the other.
LEMMA ConcatEntersNothing ==
  ASSUME NEW c, NEW d, EntersNothing(c), EntersNothing(d)
  PROVE  EntersNothing(c \o d)
<1>1. PICK S, L : Harmless(S, L) /\ c \in Seq(S)
  BY HarmlessComponent
<1>2. PICK R, K : Harmless(R, K) /\ d \in Seq(R)
  BY HarmlessComponent
<1> DEFINE all == S \cup R
<1>3. Harmless(all, L \cup K)
  BY <1>1, <1>2, BothAreHarmless
<1>4. S \subseteq all /\ R \subseteq all
  OBVIOUS
<1> HIDE DEF all
<1>5. c \o d \in Seq(all)
  BY <1>1, <1>2, <1>4
<1> QED BY <1>3, <1>5, HarmlessIsComponent

\* The instructions of the prologue behind those that enter its areas.
LEMMA PrologueInstructions ==
  /\ \A n, a, v : IsHarmless(RegAsgnNumber(n, a, v)) /\ IsHarmless(DerefAsgnNumber(n, a, v))
  /\ \A n, a, b : IsHarmless(RegAsgnReg(n, a, b)) /\ IsHarmless(DerefAsgnReg(n, a, b))
  /\ \A n, a, b : IsHarmless(DerefInvAsgnReg(n, a, b)) /\ IsHarmless(ZeroExtend(n, a, b))
  /\ \A n, a, b : IsHarmless(NotReg(n, a, b)) /\ IsHarmless(CopyFrom(n, a, b)) /\ IsHarmless(CopyTo(n, a, b))
  /\ \A n, a, b, c : IsHarmless(XorReg(n, a, b, c)) /\ IsHarmless(PlusReg(n, a, b, c))
  /\ \A n, a, b, v : /\ IsHarmless(PlusNumber(n, a, b, v)) /\ IsHarmless(AndNumber(n, a, b, v))
                     /\ IsHarmless(TimesNumber(n, a, b, v))
  /\ \A n, a : IsHarmless(Havoc(n, a)) /\ IsHarmless(HavocAt(n, a))
  /\ \A a, mode, id : IsHarmless(StreamOpen(a, mode, id)) /\ IsHarmless(StreamRead(a, id))
  /\ \A a, data : IsHarmless(DerefAddressAsgnData(a, data))
<1>1. \A n, a, v : IsHarmless(RegAsgnNumber(n, a, v)) /\ IsHarmless(DerefAsgnNumber(n, a, v))
  BY InstructionIsHarmless DEF RegAsgnNumber, DerefAsgnNumber, IsInstruction
<1>2. \A n, a, b : IsHarmless(RegAsgnReg(n, a, b)) /\ IsHarmless(DerefAsgnReg(n, a, b))
  BY InstructionIsHarmless DEF RegAsgnReg, DerefAsgnReg, IsInstruction
<1>3. \A n, a, b : IsHarmless(DerefInvAsgnReg(n, a, b)) /\ IsHarmless(ZeroExtend(n, a, b))
  BY InstructionIsHarmless DEF DerefInvAsgnReg, ZeroExtend, IsInstruction
<1>4. \A n, a, b : IsHarmless(NotReg(n, a, b)) /\ IsHarmless(CopyFrom(n, a, b)) /\ IsHarmless(CopyTo(n, a, b))
  BY InstructionIsHarmless DEF NotReg, CopyFrom, CopyTo, IsInstruction
<1>5. \A n, a, b, c : IsHarmless(XorReg(n, a, b, c)) /\ IsHarmless(PlusReg(n, a, b, c))
  BY InstructionIsHarmless DEF XorReg, PlusReg, IsInstruction
<1>6. \A n, a, b, v : /\ IsHarmless(PlusNumber(n, a, b, v)) /\ IsHarmless(AndNumber(n, a, b, v))
                      /\ IsHarmless(TimesNumber(n, a, b, v))
  BY InstructionIsHarmless DEF PlusNumber, AndNumber, TimesNumber, IsInstruction
<1>7. \A n, a : IsHarmless(Havoc(n, a)) /\ IsHarmless(HavocAt(n, a))
  BY InstructionIsHarmless DEF Havoc, HavocAt, IsInstruction
<1>8. \A a, mode, id : IsHarmless(StreamOpen(a, mode, id)) /\ IsHarmless(StreamRead(a, id))
  BY InstructionIsHarmless DEF StreamOpen, StreamRead, IsInstruction
<1>9. \A a, data : IsHarmless(DerefAddressAsgnData(a, data))
  BY InstructionIsHarmless DEF DerefAddressAsgnData, IsInstruction
<1> QED BY <1>1, <1>2, <1>3, <1>4, <1>5, <1>6, <1>7, <1>8, <1>9

\* A few of them, one after the other.
LEMMA FewEnterNothing ==
  /\ \A a : IsHarmless(a) => EntersNothing(<<a>>)
  /\ \A a, b : IsHarmless(a) /\ IsHarmless(b) => EntersNothing(<<a, b>>)
  /\ \A a, b, c : IsHarmless(a) /\ IsHarmless(b) /\ IsHarmless(c) => EntersNothing(<<a, b, c>>)
  /\ \A a, b, c, d : IsHarmless(a) /\ IsHarmless(b) /\ IsHarmless(c) /\ IsHarmless(d)
                       => EntersNothing(<<a, b, c, d>>)
<1>1. ASSUME NEW a, IsHarmless(a) PROVE EntersNothing(<<a>>)
  <2>1. HasLength(<<a>>) /\ Len(<<a>>) = 1 /\ \A i \in 1..1 : <<a>>[i] = a
    BY DEF HasLength, IsSeq
  <2> QED BY <1>1, <2>1 DEF EntersNothing
<1>2. ASSUME NEW a, NEW b, IsHarmless(a), IsHarmless(b)
      PROVE  EntersNothing(<<a, b>>)
  <2> DEFINE w == <<a, b>>
  <2>1. HasLength(w) /\ Len(w) = 2
    BY DEF HasLength, IsSeq
  <2>2. w[1] = a /\ w[2] = b
    OBVIOUS
  <2>3. \A i \in 1..2 : i = 1 \/ i = 2
    OBVIOUS
  <2> HIDE DEF w
  <2>4. EntersNothing(w)
    BY <1>2, <2>1, <2>2, <2>3 DEF EntersNothing
  <2> QED BY <2>4 DEF w
<1>3. ASSUME NEW a, NEW b, NEW c, IsHarmless(a), IsHarmless(b), IsHarmless(c)
      PROVE  EntersNothing(<<a, b, c>>)
  <2> DEFINE w == <<a, b, c>>
  <2>1. HasLength(w) /\ Len(w) = 3
    BY DEF HasLength, IsSeq
  <2>2. w[1] = a /\ w[2] = b /\ w[3] = c
    OBVIOUS
  <2>3. \A i \in 1..3 : i = 1 \/ i = 2 \/ i = 3
    OBVIOUS
  <2> HIDE DEF w
  <2>4. EntersNothing(w)
    BY <1>3, <2>1, <2>2, <2>3 DEF EntersNothing
  <2> QED BY <2>4 DEF w
<1>4. ASSUME NEW a, NEW b, NEW c, NEW d, IsHarmless(a), IsHarmless(b), IsHarmless(c), IsHarmless(d)
      PROVE  EntersNothing(<<a, b, c, d>>)
  <2> DEFINE w == <<a, b, c, d>>
  <2>1. HasLength(w) /\ Len(w) = 4
    BY DEF HasLength, IsSeq
  <2>2. w[1] = a /\ w[2] = b /\ w[3] = c /\ w[4] = d
    OBVIOUS
  <2>3. \A i \in 1..4 : i = 1 \/ i = 2 \/ i = 3 \/ i = 4
    OBVIOUS
  <2> HIDE DEF w
  <2>4. EntersNothing(w)
    BY <1>4, <2>1, <2>2, <2>3 DEF EntersNothing
  <2> QED BY <2>4 DEF w
<1> QED BY <1>1, <1>2, <1>3, <1>4

\* Reading the input enters no blocks.
LEMMA ReadingEntersNothing == EntersNothing(ReadInputData)
<1>1. EntersNothing(ReadCount)
  <2> DEFINE reads == [i \in 1..4 |-> StreamRead(T(7 + i), 1)]
             last == CopyTo(4, T(0), T(8))
  <2>1. IsHarmless(last) /\ \A i \in 1..4 : IsHarmless(StreamRead(T(7 + i), 1))
    BY PrologueInstructions
  <2>2. IsSeq(reads, 4) /\ \A i \in 1..4 : reads[i] = StreamRead(T(7 + i), 1)
    BY DEF IsSeq
  <2>3. ReadCount = reads \o <<last>>
    BY DEF ReadCount
  <2> HIDE DEF reads, last
  <2>4. HasLength(reads) /\ Len(reads) = 4
    BY <2>2, SeqFacts DEF HasLength
  <2>5. EntersNothing(reads)
    BY <2>1, <2>2, <2>4 DEF EntersNothing
  <2>6. EntersNothing(<<last>>)
    BY <2>1, FewEnterNothing
  <2> QED BY <2>3, <2>5, <2>6, ConcatEntersNothing
<1>2. EntersNothing(ReadStrings)
  <2> DEFINE inner == <<StreamRead(T(16), 1), CopyTo(1, T(0), T(16)), PlusNumber(8, T(0), T(0), 1)>>
             one == LoopWhile(1, T(16), inner)
             body == <<one, PlusNumber(4, T(8), T(8), 1)>>
             all == LoopUntilEqual(4, T(16), T(8), T(12), body)
  <2>1. EntersNothing(inner)
    BY PrologueInstructions, FewEnterNothing
  <2> HIDE DEF inner
  <2>2. IsHarmless(one)
    BY <2>1, LoopsAreHarmless
  <2> HIDE DEF one
  <2>3. EntersNothing(body)
    BY <2>2, PrologueInstructions, FewEnterNothing
  <2> HIDE DEF body
  <2>4. IsHarmless(all)
    BY <2>3, LoopsAreHarmless
  <2>5. ReadStrings = <<RegAsgnNumber(4, T(8), 0), all>>
    BY DEF ReadStrings, all, body, one, inner
  <2> HIDE DEF all
  <2> QED BY <2>4, <2>5, PrologueInstructions, FewEnterNothing
<1>3. IsHarmless(Call(ReadCount)) /\ IsHarmless(Call(ReadStrings))
  BY <1>1, <1>2, CallIsHarmless
<1>4. EntersNothing(TakeCount) /\ EntersNothing(SkipCount)
  BY PrologueInstructions, FewEnterNothing DEF TakeCount, SkipCount
<1> DEFINE a == <<RegAsgnNumber(8, T(0), Input), Call(ReadCount)>>
           b == <<Call(ReadStrings), RegAsgnReg(8, EnvOfInput, T(0)), Call(ReadCount)>>
           c == <<TimesNumber(4, T(12), T(12), 2)>>
           d == <<Call(ReadStrings), RegAsgnReg(8, EndOfInput, T(0))>>
<1>5. EntersNothing(a) /\ EntersNothing(b) /\ EntersNothing(c) /\ EntersNothing(d)
  BY <1>3, PrologueInstructions, FewEnterNothing
<1>6. ReadInputData = a \o TakeCount \o SkipCount \o b \o TakeCount \o c \o SkipCount \o d
  BY DEF ReadInputData
<1> HIDE DEF a, b, c, d
<1>7. EntersNothing(a \o TakeCount \o SkipCount \o b)
  BY <1>4, <1>5, ConcatEntersNothing
<1> DEFINE first == a \o TakeCount \o SkipCount \o b
<1>8. ReadInputData = first \o TakeCount \o c \o SkipCount \o d
  BY <1>6
<1> HIDE DEF first
<1>9. EntersNothing(first \o TakeCount \o c \o SkipCount \o d)
  BY <1>4, <1>5, <1>7, ConcatEntersNothing DEF first
<1> QED BY <1>8, <1>9

\* Nor does what puts the strings on the stack.
LEMMA CopyingEntersNothing == EntersNothing(CopyParamsToStack) /\ EntersNothing(CopyEnvToStack)
<1>1. EntersNothing(CopyStringToStack)
  <2> DEFINE inner == <<CopyFrom(1, T(32), T(16)), DerefAsgnReg(1, T(8), T(32)),
                        PlusNumber(8, T(8), T(8), 1), PlusNumber(8, T(16), T(16), 1)>>
             all == LoopWhile(1, T(32), inner)
  <2>1. EntersNothing(inner)
    BY PrologueInstructions, FewEnterNothing
  <2> HIDE DEF inner
  <2>2. IsHarmless(all)
    BY <2>1, LoopsAreHarmless
  <2>3. CopyStringToStack = <<all>>
    BY DEF CopyStringToStack, inner
  <2> HIDE DEF all
  <2> QED BY <2>2, <2>3, FewEnterNothing
<1>2. IsHarmless(Call(CopyStringToStack))
  BY <1>1, CallIsHarmless
<1>3. EntersNothing(PointToString)
  BY <1>2, PrologueInstructions, FewEnterNothing DEF PointToString
<1>4. EntersNothing(CopyParamsToStack)
  <2> DEFINE last == <<PlusNumber(4, T(24), T(24), 1)>>
             body == PointToString \o last
             all == LoopUntilEqual(4, T(28), T(24), Input, body)
  <2>1. EntersNothing(last)
    BY PrologueInstructions, FewEnterNothing
  <2> HIDE DEF last
  <2>2. EntersNothing(body)
    BY <1>3, <2>1, ConcatEntersNothing
  <2> HIDE DEF body
  <2>3. IsHarmless(all)
    BY <2>2, LoopsAreHarmless
  <2>4. CopyParamsToStack
          = <<ZeroExtend(4, T(24), Input), DerefInvAsgnReg(8, RSP, T(24)), RegAsgnNumber(4, T(24), 0), all>>
    BY DEF CopyParamsToStack, body, last
  <2> HIDE DEF all
  <2> QED BY <2>3, <2>4, PrologueInstructions, FewEnterNothing
<1>5. EntersNothing(CopyEnvToStack)
  <2> DEFINE last == <<Call(CopyStringToStack), PlusNumber(4, T(24), T(24), 1)>>
             body == PointToString \o WriteEquals \o last
             all == LoopUntilEqual(4, T(32), T(24), T(28), body)
  <2>1. EntersNothing(last) /\ EntersNothing(WriteEquals)
    BY <1>2, PrologueInstructions, FewEnterNothing DEF WriteEquals
  <2> HIDE DEF last
  <2>2. EntersNothing(body)
    BY <1>3, <2>1, ConcatEntersNothing
  <2> HIDE DEF body
  <2>3. IsHarmless(all)
    BY <2>2, LoopsAreHarmless
  <2>4. CopyEnvToStack
          = <<RegAsgnNumber(4, T(24), 0), CopyFrom(4, T(28), T(16)), PlusNumber(8, T(16), T(16), 4), all>>
    BY DEF CopyEnvToStack, body, last
  <2> HIDE DEF all
  <2> QED BY <2>3, <2>4, PrologueInstructions, FewEnterNothing
<1> QED BY <1>4, <1>5

\* Nor does the rest of what initialises the stack.
LEMMA StackEntersNothing == EntersNothing(InitStack)
<1>1. EntersNothing(ComputeStackPointers)
  <2> DEFINE w == ComputeStackPointers
  <2>1. HasLength(w) /\ Len(w) = 12
    BY DEF ComputeStackPointers, HasLength, IsSeq
  <2>2. /\ IsHarmless(w[1]) /\ IsHarmless(w[2]) /\ IsHarmless(w[3]) /\ IsHarmless(w[4])
        /\ IsHarmless(w[5]) /\ IsHarmless(w[6]) /\ IsHarmless(w[7]) /\ IsHarmless(w[8])
        /\ IsHarmless(w[9]) /\ IsHarmless(w[10]) /\ IsHarmless(w[11]) /\ IsHarmless(w[12])
    BY PrologueInstructions DEF ComputeStackPointers
  <2>3. \A i \in 1..12 : i = 1 \/ i = 2 \/ i = 3 \/ i = 4 \/ i = 5 \/ i = 6 \/ i = 7 \/ i = 8 \/ i = 9 \/ i = 10 \/ i = 11 \/ i = 12
    OBVIOUS
  <2> HIDE DEF w
  <2>4. EntersNothing(w)
    BY <2>1, <2>2, <2>3 DEF EntersNothing
  <2> QED BY <2>4 DEF w
<1>2. EntersNothing(SetAlignmentZeros)
  <2> DEFINE all == LoopUntilEqual(8, T(16), T(0), StringsBegin, ClearByte)
  <2>1. EntersNothing(ClearByte)
    BY PrologueInstructions, FewEnterNothing DEF ClearByte
  <2>2. IsHarmless(all)
    BY <2>1, LoopsAreHarmless
  <2>3. SetAlignmentZeros = <<all>>
    BY DEF SetAlignmentZeros
  <2> HIDE DEF all
  <2> QED BY <2>2, <2>3, FewEnterNothing
<1>3. EntersNothing(HavocUsedTemporaries)
  <2> DEFINE body == <<HavocAt(1, T(0)), PlusNumber(8, T(0), T(0), 1)>>
             all == LoopUntilEqual(8, T(8), T(0), EndOfInput, body)
             first == <<RegAsgnNumber(8, T(0), Input), all>>
  <2>1. EntersNothing(body)
    BY PrologueInstructions, FewEnterNothing
  <2> HIDE DEF body
  <2>2. IsHarmless(all)
    BY <2>1, LoopsAreHarmless
  <2> HIDE DEF all
  <2>3. EntersNothing(first)
    BY <2>2, PrologueInstructions, FewEnterNothing
  <2>4. EntersNothing(HavocRemaining)
    BY PrologueInstructions, FewEnterNothing DEF HavocRemaining
  <2>5. HavocUsedTemporaries = first \o HavocRemaining
    BY DEF HavocUsedTemporaries, all, body
  <2> HIDE DEF first
  <2> QED BY <2>3, <2>4, <2>5, ConcatEntersNothing
<1>4. EntersNothing(Put8Zeros)
  BY PrologueInstructions, FewEnterNothing DEF Put8Zeros
<1>5. /\ IsHarmless(Call(ReadInputData)) /\ IsHarmless(Call(ComputeStackPointers))
      /\ IsHarmless(Call(CopyParamsToStack)) /\ IsHarmless(Call(CopyEnvToStack))
      /\ IsHarmless(Call(SetAlignmentZeros)) /\ IsHarmless(Call(HavocUsedTemporaries))
  BY <1>1, <1>2, <1>3, ReadingEntersNothing, CopyingEntersNothing, CallIsHarmless
<1> DEFINE a == <<Call(ReadInputData), Call(ComputeStackPointers), PlusNumber(8, T(0), RSP, 8),
                  RegAsgnReg(8, T(8), StringsBegin), RegAsgnNumber(8, T(16), Input + 4), Call(CopyParamsToStack)>>
           b == <<Call(CopyEnvToStack), XorReg(8, T(16), T(8), EndOfInput)>>
           c == <<Call(SetAlignmentZeros), Call(HavocUsedTemporaries)>>
<1>6. InitStack = a \o Put8Zeros \o b \o Put8Zeros \o c
  BY DEF InitStack
<1>7. EntersNothing(b) /\ EntersNothing(c)
  BY <1>5, PrologueInstructions, FewEnterNothing
<1>8. EntersNothing(a)
  <2>1. HasLength(a) /\ Len(a) = 6
    BY DEF HasLength, IsSeq
  <2>2. /\ IsHarmless(a[1]) /\ IsHarmless(a[2]) /\ IsHarmless(a[3])
        /\ IsHarmless(a[4]) /\ IsHarmless(a[5]) /\ IsHarmless(a[6])
    BY <1>5, PrologueInstructions
  <2>3. \A i \in 1..6 : i = 1 \/ i = 2 \/ i = 3 \/ i = 4 \/ i = 5 \/ i = 6
    OBVIOUS
  <2> HIDE DEF a
  <2> QED BY <2>1, <2>2, <2>3 DEF EntersNothing
<1> HIDE DEF a, b, c
<1> QED BY <1>4, <1>6, <1>7, <1>8, ConcatEntersNothing

-----------------------------------------------------------------------------
(* The prologue first enters its areas, then nothing any more *)

\* What it enters, ...
EntersArea(x, begin, size) ==
  x.gik = "REG:=MEM STATIC" /\ x.begin = begin /\ x.size = size

\* ... one area after the other.
LEMMA StartEntersAreas ==
  ASSUME NEW D, Len(D.sections) \in Nat
  PROVE  LET c == StartComponent(D)
         IN  /\ HasLength(c) /\ Len(c) = NumAreas(D) + 10
             /\ \A i \in 1..NumAreas(D) : EntersArea(c[i], AreaBegin(D, i), AreaSize(D, i))
             /\ \A i \in (NumAreas(D) + 1)..Len(c) : IsHarmless(c[i])
<1> DEFINE n == Len(D.sections)
           rights == [i \in 1..n |-> SectionRights(D.sections[i])]
           rest == <<MemStatic(T(0), StackBegin(D), TRUE, TRUE, StackSize(D)),
                     MemStatic(T(0), HeapStart(D), TRUE, TRUE, Len(TlsContent(D))),
                     StreamOpen(T(0), 1, 1), StreamOpen(T(0), 2, 2), StreamOpen(T(0), 2, 3), StreamOpen(T(0), 2, 4),
                     Call(InitCodeAndDataSections(D)), Call(InitStack), Call(InitTlsSection(D)),
                     RegAsgnNumber(8, RDX, 0),
                     RegAsgnNumber(8, FS, HeapStart(D) + TcbBegin(D)),
                     RegAsgnNumber(8, RIP, D.entry)>>
           c == rights \o rest
<1>1. StartComponent(D) = c
  BY DEF StartComponent
<1>2. HasLength(rights) /\ Len(rights) = n
  <2>1. IsSeq(rights, n)
    BY DEF IsSeq
  <2> HIDE DEF rights
  <2> QED BY <2>1, SeqFacts DEF HasLength
<1>3. \A i \in 1..n : EntersArea(rights[i], D.sections[i].start, Len(D.sections[i].data))
  BY DEF EntersArea, SectionRights, MemStatic
<1>4. /\ IsHarmless(Call(InitCodeAndDataSections(D))) /\ IsHarmless(Call(InitStack))
      /\ IsHarmless(Call(InitTlsSection(D)))
  <2>1. EntersNothing(InitCodeAndDataSections(D))
    <3> DEFINE w == [i \in 1..n |-> DerefAddressAsgnData(D.sections[i].start, D.sections[i].data)]
    <3>1. IsSeq(w, n) /\ \A i \in 1..n : IsHarmless(w[i])
      BY PrologueInstructions DEF IsSeq
    <3>2. InitCodeAndDataSections(D) = w
      BY DEF InitCodeAndDataSections
    <3> HIDE DEF w
    <3>3. HasLength(w) /\ Len(w) = n
      BY <3>1, SeqFacts DEF HasLength
    <3> QED BY <3>1, <3>2, <3>3 DEF EntersNothing
  <2>2. EntersNothing(InitTlsSection(D))
    BY PrologueInstructions, FewEnterNothing DEF InitTlsSection
  <2> QED BY <2>1, <2>2, StackEntersNothing, CallIsHarmless
<1>5. HasLength(rest) /\ Len(rest) = 12
  BY DEF HasLength, IsSeq
<1>6. EntersArea(rest[1], StackBegin(D), StackSize(D)) /\ EntersArea(rest[2], HeapStart(D), Len(TlsContent(D)))
  BY DEF EntersArea, MemStatic
<1>7. /\ IsHarmless(rest[3]) /\ IsHarmless(rest[4]) /\ IsHarmless(rest[5]) /\ IsHarmless(rest[6])
      /\ IsHarmless(rest[7]) /\ IsHarmless(rest[8]) /\ IsHarmless(rest[9]) /\ IsHarmless(rest[10])
      /\ IsHarmless(rest[11]) /\ IsHarmless(rest[12])
  BY <1>4, PrologueInstructions
<1> HIDE DEF rights, rest
<1>8. /\ HasLength(c) /\ Len(c) = n + 12
      /\ \A i \in 1..n : c[i] = rights[i]
      /\ \A j \in 1..12 : c[n + j] = rest[j]
  <2>1. HasLength(c) /\ Len(c) = Len(rights) + Len(rest)
    BY <1>2, <1>5, ConcatHasLength
  <2>2. IsJoin(c, rights, rest)
    BY DEF IsJoin
  <2> HIDE DEF c
  <2>3. HasElements(c, rights, rest)
    BY <1>2, <1>5, <2>2, ConcatElements
  <2>4. \A i \in 1..n : c[i] = rights[i]
    BY <1>2, <2>3 DEF HasElements
  <2>5. \A j \in 1..12 : c[n + j] = rest[j]
    BY <1>2, <1>5, <2>3 DEF HasElements
  <2>6. Len(c) = n + 12
    BY <1>2, <1>5, <2>1
  <2> QED BY <2>1, <2>4, <2>5, <2>6
<1> HIDE DEF c
<1>9. \A i \in 1..NumAreas(D) : EntersArea(c[i], AreaBegin(D, i), AreaSize(D, i))
  <2>1. TAKE i \in 1..NumAreas(D)
  <2>2. CASE i \in 1..n
    BY <1>3, <1>8, <2>2 DEF AreaBegin, AreaSize
  <2>3. CASE i = n + 1
    <3>1. c[n + 1] = rest[1]
      BY <1>8
    <3> QED BY <1>6, <2>3, <3>1 DEF AreaBegin, AreaSize
  <2>4. CASE i = n + 2
    <3>1. c[n + 2] = rest[2]
      BY <1>8
    <3> QED BY <1>6, <2>4, <3>1 DEF AreaBegin, AreaSize
  <2> QED BY <2>1, <2>2, <2>3, <2>4 DEF NumAreas
<1>10. \A i \in (NumAreas(D) + 1)..Len(c) : IsHarmless(c[i])
  <2>1. \A j \in 3..12 : j = 3 \/ j = 4 \/ j = 5 \/ j = 6 \/ j = 7 \/ j = 8 \/ j = 9 \/ j = 10 \/ j = 11 \/ j = 12
    OBVIOUS
  <2>2. \A j \in 3..12 : IsHarmless(rest[j])
    BY <1>7, <2>1
  <2>3. \A i \in (NumAreas(D) + 1)..Len(c) : i - n \in 3..12 /\ c[i] = rest[i - n]
    <3>1. TAKE i \in (NumAreas(D) + 1)..Len(c)
    <3>2. n \in Nat /\ i \in (n + 3)..(n + 12)
      BY <1>8, <3>1 DEF NumAreas
    <3> HIDE DEF n
    <3>3. i - n \in 3..12 /\ i - n \in 1..12 /\ i = n + (i - n)
      BY <3>2
    <3>4. c[n + (i - n)] = rest[i - n]
      BY <1>8, <3>3
    <3> QED BY <3>3, <3>4
  <2> QED BY <2>2, <2>3
<1>11. Len(c) = NumAreas(D) + 10
  BY <1>8 DEF NumAreas
<1> QED BY <1>1, <1>8, <1>9, <1>10, <1>11

-----------------------------------------------------------------------------
(* What is left of the code leads on *)

\* What is left behind some of it, ...
LEMMA SuffixLeadsOn ==
  ASSUME NEW S, NEW L, NEW c, LeadsOn(S, L, c), NEW k \in 1..(Len(c) + 1)
  PROVE  LeadsOn(S, L, SubSeq(c, k, Len(c)))
<1> DEFINE n == Len(c)
           X == S \cup L
           d == SubSeq(c, k, n)
<1>1. c \in Seq(X) /\ n \in Nat
  BY DEF LeadsOn
<1> HIDE DEF X
<1>2. d \in Seq(X) /\ Len(d) = n - k + 1 /\ \A i \in 1..(n - k + 1) : d[i] = c[k + i - 1]
  BY <1>1
<1> HIDE DEF d
<1>3. ASSUME NEW i \in 1..Len(d), d[i] \notin S PROVE \E j \in (i + 1)..Len(d) : d[j].gik = "again"
  <2>1. k + i - 1 \in 1..n /\ c[k + i - 1] \notin S
    BY <1>1, <1>2, <1>3
  <2>2. PICK j \in (k + i)..n : c[j].gik = "again"
    <3>1. \E j \in (k + i - 1 + 1)..n : c[j].gik = "again"
      BY <2>1 DEF LeadsOn
    <3> QED BY <1>1, <3>1
  <2>3. j - k + 1 \in (i + 1)..Len(d) /\ k + (j - k + 1) - 1 = j /\ j - k + 1 \in 1..(n - k + 1)
    BY <1>1, <1>2, <2>2
  <2>4. d[j - k + 1] = c[j]
    BY <1>2, <2>3
  <2> QED BY <2>2, <2>3, <2>4
<1> QED BY <1>2, <1>3 DEF LeadsOn, X, d

\* ... behind its head, ...
LEMMA TailLeadsOn ==
  ASSUME NEW S, NEW L, NEW c, LeadsOn(S, L, c), c # << >>
  PROVE  /\ LeadsOn(S, L, Tail(c))
         /\ Head(c) \in S \/ (Head(c) \in L /\ \E j \in 1..Len(Tail(c)) : Tail(c)[j].gik = "again")
<1> DEFINE n == Len(c)
           X == S \cup L
<1>1. c \in Seq(X) /\ n \in Nat /\ n >= 1
  BY DEF LeadsOn
<1>2. Tail(c) = SubSeq(c, 2, n) /\ Head(c) = c[1] /\ Head(c) \in X
  <2> HIDE DEF X
  <2>1. Tail(c) = SubSeq(c, 2, Len(c))
    BY <1>1, TailIsSubSeq
  <2>2. Head(c) = c[1] /\ c[1] \in X
    BY <1>1
  <2> QED BY <2>1, <2>2
<1>3. LeadsOn(S, L, Tail(c))
  <2>1. 2 \in 1..(Len(c) + 1)
    BY <1>1
  <2>2. LeadsOn(S, L, SubSeq(c, 2, Len(c)))
    BY <2>1, SuffixLeadsOn
  <2> QED BY <1>2, <2>2
<1>4. ASSUME Head(c) \notin S PROVE \E j \in 1..Len(Tail(c)) : Tail(c)[j].gik = "again"
  <2>1. PICK j \in 2..n : c[j].gik = "again"
    <3>1. 1 \in 1..n /\ c[1] \notin S
      BY <1>1, <1>2, <1>4
    <3>2. \E j \in (1 + 1)..n : c[j].gik = "again"
      BY <3>1 DEF LeadsOn
    <3> QED BY <3>2
  <2>2. j - 1 \in 1..Len(Tail(c)) /\ Tail(c)[j - 1] = c[j]
    <3> HIDE DEF X
    <3> QED BY <1>1
  <2> QED BY <2>1, <2>2
<1> QED BY <1>2, <1>3, <1>4

\* ... and what is put in front of it.
LEMMA JoinLeadsOn ==
  ASSUME NEW S, NEW L, NEW p \in Seq(S \cup L), NEW c, LeadsOn(S, L, c),
         p \in Seq(S) \/ \E j \in 1..Len(c) : c[j].gik = "again"
  PROVE  LeadsOn(S, L, p \o c)
<1> DEFINE m == Len(p)
           n == Len(c)
           X == S \cup L
           d == p \o c
<1>1. c \in Seq(X) /\ n \in Nat /\ p \in Seq(X) /\ m \in Nat
  BY DEF LeadsOn
<1>2. d \in Seq(X) /\ Len(d) = m + n
  <2> HIDE DEF X
  <2> QED BY <1>1
<1>3. (\A i \in 1..m : d[i] = p[i]) /\ \A j \in 1..n : d[m + j] = c[j]
  <2>1. HasLength(p) /\ HasLength(c)
    BY <1>1, LengthOfSeq
  <2>2. IsJoin(d, p, c)
    BY DEF IsJoin
  <2> HIDE DEF d
  <2>3. HasElements(d, p, c)
    BY <2>1, <2>2, ConcatElements
  <2> QED BY <2>3 DEF HasElements
<1> HIDE DEF d
<1>4. ASSUME NEW j \in 1..n, c[j].gik = "again", NEW i \in 1..Len(d), i < m + j
      PROVE  \E k \in (i + 1)..Len(d) : d[k].gik = "again"
  <2>1. m + j \in (i + 1)..Len(d) /\ d[m + j] = c[j]
    BY <1>1, <1>2, <1>3, <1>4
  <2> QED BY <1>4, <2>1
<1>5. ASSUME NEW i \in 1..Len(d), d[i] \notin S PROVE \E k \in (i + 1)..Len(d) : d[k].gik = "again"
  <2>1. CASE i <= m
    <3>1. i \in 1..m /\ p[i] \notin S
      BY <1>1, <1>3, <1>5, <2>1
    <3>2. p \notin Seq(S)
      BY <3>1
    <3>3. PICK j \in 1..n : c[j].gik = "again"
      BY <3>2
    <3>4. i < m + j
      BY <1>1, <3>1, <3>3
    <3> QED BY <1>4, <3>3, <3>4
  <2>2. CASE ~(i <= m)
    <3>1. i - m \in 1..n /\ m + (i - m) = i
      BY <1>1, <1>2, <2>2
    <3>2. c[i - m] \notin S
      <4>1. d[m + (i - m)] = c[i - m]
        BY <1>3, <3>1
      <4> QED BY <1>5, <3>1, <4>1
    <3>3. PICK j \in ((i - m) + 1)..n : c[j].gik = "again"
      BY <3>1, <3>2 DEF LeadsOn
    <3>4. j \in 1..n /\ i < m + j
      BY <1>1, <3>1, <3>3
    <3> QED BY <1>4, <3>3, <3>4
  <2> QED BY <2>1, <2>2
<1> QED BY <1>2, <1>5 DEF LeadsOn, X, d

\* Nothing is left at the end.
LEMMA NothingLeadsOn ==
  ASSUME NEW S, NEW L
  PROVE  LeadsOn(S, L, << >>)
BY DEF LeadsOn

\* A loop and what is behind it.
LEMMA LoopLeadsOn ==
  ASSUME NEW S, NEW L, NEW body \in Seq(S \cup L), NEW again \in S, again.gik = "again",
         NEW rest, LeadsOn(S, L, rest)
  PROVE  LeadsOn(S, L, body \o <<again>> \o rest)
<1> DEFINE head == <<again>>
           left == head \o rest
<1>1. head \in Seq(S) /\ head \in Seq(S \cup L) /\ Len(head) = 1 /\ head[1] = again
  OBVIOUS
<1>2. rest \in Seq(S \cup L)
  BY DEF LeadsOn
<1>3. 1 \in 1..Len(left) /\ left[1].gik = "again"
  <2>1. left[1] = again /\ Len(left) = 1 + Len(rest) /\ Len(rest) \in Nat
    BY <1>2
  <2> QED BY <2>1
<1> HIDE DEF head
<1>4. LeadsOn(S, L, left)
  BY <1>1, JoinLeadsOn
<1>5. (body \o head) \o rest = body \o left
  BY <1>1, <1>2, ConcatAssociative
<1> HIDE DEF left
<1>6. LeadsOn(S, L, body \o left)
  BY <1>3, <1>4, JoinLeadsOn
<1> QED BY <1>5, <1>6 DEF head

\* So every step of the thread leaves code that leads on.
LEMMA StepLeadsOn ==
  ASSUME NEW S, NEW L, Harmless(S, L), LeadsOn(S, L, code), ThreadStep
  PROVE  LeadsOn(S, L, code')
<1> DEFINE x == Head(code)
           rest == Tail(code)
           ItIsAgain == \E j \in 1..Len(rest) : rest[j].gik = "again"
<1>1. ASSUME code # << >> PROVE LeadsOn(S, L, rest) /\ (x \in S \/ (x \in L /\ ItIsAgain))
  BY <1>1, TailLeadsOn
<1>2. CASE PassInstruction
  <2>1. code # << >> /\ (code' = << >> \/ code' = rest)
    BY <1>2 DEF PassInstruction
  <2> QED BY <1>1, <2>1, NothingLeadsOn
<1>3. CASE PassGuard
  <2>1. /\ code # << >> /\ x.gik = "branch"
        /\ code' = x.zero \o rest \/ code' = x.other \o rest
    BY <1>3 DEF PassGuard
  <2> HIDE DEF x, rest
  <2>2. CASE x \in S
    <3>1. x.zero \in Seq(S) /\ x.other \in Seq(S)
      BY <2>1, <2>2 DEF Harmless, IsInstruction
    <3>2. x.zero \in Seq(S \cup L) /\ x.other \in Seq(S \cup L)
      <4>1. S \subseteq S \cup L
        OBVIOUS
      <4> QED BY <3>1, <4>1
    <3> QED BY <1>1, <2>1, <3>1, <3>2, JoinLeadsOn
  <2>3. CASE x \notin S
    <3>1. x \in L /\ ItIsAgain
      BY <1>1, <2>1, <2>3
    <3>2. x.zero \in Seq(S \cup L) /\ x.other \in Seq(S \cup L)
      BY <2>1, <3>1 DEF Harmless
    <3> QED BY <1>1, <2>1, <3>1, <3>2, JoinLeadsOn
  <2> QED BY <2>2, <2>3
<1>4. CASE PassCall
  <2>1. code # << >> /\ x.gik = "call" /\ code' = x.component \o rest
    BY <1>4 DEF PassCall
  <2> HIDE DEF x, rest
  <2>2. x \in S
    BY <1>1, <2>1 DEF Harmless
  <2>3. x.component \in Seq(S)
    BY <2>1, <2>2 DEF Harmless, IsInstruction
  <2>4. x.component \in Seq(S \cup L)
    <3>1. S \subseteq S \cup L
      OBVIOUS
    <3> QED BY <2>3, <3>1
  <2> QED BY <1>1, <2>1, <2>3, <2>4, JoinLeadsOn
<1>5. CASE EnterLoop
  <2> DEFINE again == [x EXCEPT !.gik = "again"]
  <2>1. code # << >> /\ x.gik \in {"loop", "again"} /\ code' = x.body \o <<again>> \o rest
    BY <1>5 DEF EnterLoop
  <2> HIDE DEF x, rest
  <2>2. x \in S
    BY <1>1, <2>1 DEF Harmless
  <2>3. x.body \in Seq(S \cup L) /\ again \in S
    BY <2>1, <2>2 DEF Harmless, IsInstruction
  <2>4. again.gik = "again"
    BY <2>1, <2>2
  <2> HIDE DEF again
  <2>5. LeadsOn(S, L, rest)
    BY <1>1, <2>1
  <2> QED BY <2>1, <2>3, <2>4, <2>5, LoopLeadsOn
<1>6. CASE LeaveLoop
  <2> DEFINE n == Len(code)
             Innermost(i) == code[i].gik = "again" /\ \A j \in 1..(i - 1) : code[j].gik # "again"
             loop == CHOOSE i \in 1..n : Innermost(i)
  <2>1. code # << >> /\ x.gik = "break" /\ code' = SubSeq(code, loop + 1, n)
    BY <1>6 DEF LeaveLoop
  <2>2. x \notin S
    <3> HIDE DEF x
    <3> QED BY <2>1 DEF Harmless, IsInstruction
  <2>3. code \in Seq(S \cup L) /\ n \in Nat
    BY DEF LeadsOn
  <2> DEFINE Agains == {i \in 1..n : code[i].gik = "again"}
  <2>4. Agains \in SUBSET Nat /\ Agains # {}
    <3>1. 1 \in 1..n /\ code[1] \notin S
      BY <2>1, <2>2, <2>3
    <3>2. PICK j \in (1 + 1)..n : code[j].gik = "again"
      BY <3>1 DEF LeadsOn
    <3>3. j \in Agains
      BY <2>3, <3>2
    <3> QED BY <3>3
  <2>5. PICK i \in Agains : \A j \in Agains : i <= j
    <3> HIDE DEF Agains
    <3> QED BY <2>4, LeastExists
  <2>6. i \in 1..n /\ Innermost(i)
    <3>1. ASSUME NEW j \in 1..(i - 1) PROVE code[j].gik # "again"
      BY <2>3, <2>5
    <3> QED BY <2>5, <3>1
  <2> HIDE DEF Innermost
  <2>7. loop \in 1..n
    BY <2>6
  <2> HIDE DEF loop
  <2>8. loop + 1 \in 1..(n + 1)
    BY <2>3, <2>7
  <2> QED BY <2>1, <2>8, SuffixLeadsOn
<1>7. CASE ReachExit
  BY <1>7, NothingLeadsOn DEF ReachExit
<1> QED BY <1>2, <1>3, <1>4, <1>5, <1>6, <1>7 DEF ThreadStep

\* And no step of it enters a block.
LEMMA LeadsToNoStatic ==
  ASSUME NEW S, NEW L, Harmless(S, L), NEW c, LeadsOn(S, L, c), c # << >>, IsInstruction(Head(c))
  PROVE  Head(c).gik # "REG:=MEM STATIC"
<1> DEFINE x == Head(c)
<1>1. x \in S \/ x \in L
  BY TailLeadsOn
<1>2. IsInstruction(x)
  OBVIOUS
<1> HIDE DEF x
<1>3. x.gik # "REG:=MEM STATIC"
  BY <1>1, <1>2 DEF Harmless, IsInstruction
<1> QED BY <1>3 DEF x

-----------------------------------------------------------------------------
(* The blocks of the machine *)

\* A store writes into memory, if it does not fail.
LEMMA StoresKeepBlocks ==
  ASSUME NEW I, NEW s, IsMachine(s), NEW w, NEW io
  PROVE  Stores(I, s, w, io).cpu.blocks = s.blocks
<1> DEFINE pool == Write(s.mem, Address(s, I.a0), w)
           s1 == [s EXCEPT !.mem = pool]
<1>1. \/ Stores(I, s, w, io) = Fails(s, "not writable memory")
      \/ Stores(I, s, w, io) = [cpu |-> s1, io |-> io]
  BY DEF Stores
<1> HIDE DEF pool
<1>2. s1.blocks = s.blocks
  BY DEF IsMachine
<1> HIDE DEF s1
<1>3. Fails(s, "not writable memory").cpu.blocks = s.blocks
  BY FailsRests DEF RestsOn
<1>4. CASE Stores(I, s, w, io) = Fails(s, "not writable memory")
  BY <1>3, <1>4
<1>5. CASE Stores(I, s, w, io) = [cpu |-> s1, io |-> io]
  BY <1>2, <1>5
<1> QED BY <1>1, <1>4, <1>5

\* Only MEM STATIC enters a block.
LEMMA OnlyStaticEnters ==
  ASSUME NEW I, NEW s, IsMachine(s), IsTyped(I), I.gik # "REG:=MEM STATIC"
  PROVE  Execute(I, s).cpu.blocks = s.blocks
<1>1. ASSUME NEW step, step.cpu.blocks = s.blocks, Execute(I, s) = Checked(I, s, step)
      PROVE  Execute(I, s).cpu.blocks = s.blocks
  BY <1>1, FailsRests DEF Checked, RestsOn
<1>2. CASE I.gik \notin TouchMemory
  BY <1>2, OnlyTheseTouchMemory DEF RestsOn
<1>3. CASE I.gik = "*ADDRESS:=DATA"
  <2> DEFINE pool == Write(s.mem, I.begin, I.data)
             s1 == [s EXCEPT !.mem = pool]
             relation == <<<<<<"mem", I.begin>>, {}>>>>
  <2>1. Execute(I, s) = ExecuteDerefAddressAsgnData(I, s)
    BY <1>3, DispatchedMoves
  <2>2. \/ ExecuteDerefAddressAsgnData(I, s) = Fails(s, "not allocated memory")
        \/ ExecuteDerefAddressAsgnData(I, s) = [cpu |-> s1, io |-> relation]
    BY DEF ExecuteDerefAddressAsgnData
  <2> HIDE DEF pool, relation
  <2>3. s1.blocks = s.blocks
    BY DEF IsMachine
  <2> HIDE DEF s1
  <2>4. Fails(s, "not allocated memory").cpu.blocks = s.blocks
    BY FailsRests DEF RestsOn
  <2>5. ASSUME NEW step, step = [cpu |-> s1, io |-> relation]
        PROVE  step.cpu.blocks = s.blocks
    BY <2>3, <2>5
  <2> QED BY <2>1, <2>2, <2>4, <2>5, Zenon
<1>4. CASE I.gik \in StoresIntoMem
  <2>0. \A w, io : Stores(I, s, w, io).cpu.blocks = s.blocks
    BY StoresKeepBlocks
  <2>1. CASE I.gik = "*REG:=REG"
    <3>1. Execute(I, s) = Checked(I, s, ExecuteDerefAsgnReg(I, s))
      BY <2>1, DispatchedMoves
    <3>2. ExecuteDerefAsgnReg(I, s).cpu.blocks = s.blocks
      BY <2>0, Zenon DEF ExecuteDerefAsgnReg
    <3> QED BY <1>1, <3>1, <3>2
  <2>2. CASE I.gik = "*INV REG:=REG"
    <3>1. Execute(I, s) = Checked(I, s, ExecuteDerefInvAsgnReg(I, s))
      BY <2>2, DispatchedMoves
    <3>2. ExecuteDerefInvAsgnReg(I, s).cpu.blocks = s.blocks
      BY <2>0, Zenon DEF ExecuteDerefInvAsgnReg
    <3> QED BY <1>1, <3>1, <3>2
  <2>3. CASE I.gik = "*REG:=NUMBER"
    <3>1. Execute(I, s) = Checked(I, s, ExecuteDerefAsgnNumber(I, s))
      BY <2>3, DispatchedMoves
    <3>2. ExecuteDerefAsgnNumber(I, s).cpu.blocks = s.blocks
      BY <2>0, Zenon DEF ExecuteDerefAsgnNumber
    <3> QED BY <1>1, <3>1, <3>2
  <2>4. CASE I.gik = "*INV REG:=NUMBER"
    <3>1. Execute(I, s) = Checked(I, s, ExecuteDerefInvAsgnNumber(I, s))
      BY <2>4, DispatchedMoves
    <3>2. ExecuteDerefInvAsgnNumber(I, s).cpu.blocks = s.blocks
      BY <2>0, Zenon DEF ExecuteDerefInvAsgnNumber
    <3> QED BY <1>1, <3>1, <3>2
  <2> QED BY <1>4, <2>1, <2>2, <2>3, <2>4 DEF StoresIntoMem
<1> QED BY <1>2, <1>3, <1>4 DEF TouchMemory

\* A block of that place and size is added, and nothing else.
AddsBlock(old, new, begin, size) ==
  \E b : b.begin = begin /\ b.size = size /\ new = old \cup {b}

\* Other registers make another machine.
LEMMA MachineWithRegisters ==
  ASSUME NEW s, IsMachine(s), NEW pool
  PROVE  IsMachine([s EXCEPT !.reg = pool])
BY DEF IsMachine

\* MEM STATIC enters the one it names, unless one begins there or it fails.
LEMMA StaticEnters ==
  ASSUME NEW I, NEW s, IsMachine(s), I.gik = "REG:=MEM STATIC", \A b \in s.blocks : b.begin # I.begin,
         Execute(I, s).cpu.error = ""
  PROVE  AddsBlock(s.blocks, Execute(I, s).cpu.blocks, I.begin, I.size)
<1> DEFINE w == Word(IF Touched(s, I.begin, I.size) = {} THEN I.begin ELSE 0, 8)
           new == [begin |-> I.begin, size |-> I.size, read |-> I.read, write |-> I.write]
           step == Assigns(s, I.a0, w, OneToN(<< >>, InReg(I.a0, 1)))
           entered == [step EXCEPT !.cpu.blocks = @ \cup {new}]
<1>1. Execute(I, s) = ExecuteMemStatic(I, s)
  <2>1. Execute(I, s) = Checked(I, s, ExecuteMemStatic(I, s))
    BY DispatchedSpecial
  <2>2. Fails(s, "assertion").cpu.error # ""
    BY FailsIs DEF HasFailed
  <2> HIDE DEF w, new, step, entered
  <2> QED BY <2>1, <2>2 DEF Checked
<1>2. ExecuteMemStatic(I, s) = entered
  BY DEF ExecuteMemStatic
<1>3. RestsOn(s, step.cpu) /\ step = [cpu |-> step.cpu, io |-> step.io]
  <2> HIDE DEF w
  <2> QED BY AssignsRests, AssignsIs
<1>4. IsMachine(step.cpu)
  <2> DEFINE pool == Write(s.reg, I.a0, w)
             c == [s EXCEPT !.reg = pool]
  <2>1. step.cpu = c
    <3> HIDE DEF w
    <3> QED BY AssignsIs
  <2> HIDE DEF pool
  <2>2. IsMachine(c)
    BY MachineWithRegisters
  <2> HIDE DEF c, step
  <2> QED BY <2>1, <2>2
<1>5. new.begin = I.begin /\ new.size = I.size
  OBVIOUS
<1> HIDE DEF w, new, step
<1>6. entered.cpu.blocks = s.blocks \cup {new}
  <2>1. ASSUME NEW c, NEW i, NEW added
        PROVE  [[cpu |-> c, io |-> i] EXCEPT !.cpu.blocks = @ \cup {added}].cpu
                 = [c EXCEPT !.blocks = c.blocks \cup {added}]
    OBVIOUS
  <2>2. ASSUME NEW x, x = [cpu |-> x.cpu, io |-> x.io], NEW added
        PROVE  [x EXCEPT !.cpu.blocks = @ \cup {added}].cpu = [x.cpu EXCEPT !.blocks = x.cpu.blocks \cup {added}]
    BY <2>1, <2>2
  <2>3. entered.cpu = [step.cpu EXCEPT !.blocks = step.cpu.blocks \cup {new}]
    BY <1>3, <2>2
  <2>4. [step.cpu EXCEPT !.blocks = step.cpu.blocks \cup {new}].blocks = step.cpu.blocks \cup {new}
    BY <1>4 DEF IsMachine
  <2> QED BY <1>3, <2>3, <2>4 DEF RestsOn
<1> HIDE DEF entered
<1>7. Execute(I, s).cpu.blocks = s.blocks \cup {new}
  BY <1>1, <1>2, <1>6
<1> QED BY <1>5, <1>7 DEF AddsBlock

-----------------------------------------------------------------------------
(* What the prologue enters *)

\* The first areas, as many as have been entered, and the blocks are the same.
AreEntered(D, k, blocks) ==
  /\ \A b \in blocks : \E i \in 1..k : b.begin = AreaBegin(D, i) /\ b.size = AreaSize(D, i)
  /\ \A i \in 1..k : \E b \in blocks : b.begin = AreaBegin(D, i) /\ b.size = AreaSize(D, i)
  /\ \A b, c \in blocks : b.begin = c.begin => b = c

\* The next one does not begin where one of them begins, so it is entered.
LEMMA NextIsEntered ==
  ASSUME NEW D, AreasLieApart(D), NumAreas(D) \in Nat, NEW k \in 0..(NumAreas(D) - 1),
         NEW old, AreEntered(D, k, old)
  PROVE  /\ \A b \in old : b.begin # AreaBegin(D, k + 1)
         /\ \A new : AddsBlock(old, new, AreaBegin(D, k + 1), AreaSize(D, k + 1)) => AreEntered(D, k + 1, new)
<1> DEFINE B(i) == AreaBegin(D, i)
           M(i) == AreaSize(D, i)
           n == NumAreas(D)
<1>1. /\ \A i \in 1..n : B(i) \in Int /\ M(i) \in Nat /\ M(i) > 0
      /\ \A i, j \in 1..n : i # j => AreDisjoint(B(i), M(i), B(j), M(j))
  BY DEF AreasLieApart
<1>2. k + 1 \in 1..n /\ (\A i \in 1..k : i \in 1..n /\ i # k + 1) /\ \A i \in 1..(k + 1) : i \in 1..k \/ i = k + 1
  OBVIOUS
<1>3. /\ \A b \in old : \E i \in 1..k : b.begin = B(i) /\ b.size = M(i)
      /\ \A i \in 1..k : \E b \in old : b.begin = B(i) /\ b.size = M(i)
      /\ \A b, c \in old : b.begin = c.begin => b = c
  BY DEF AreEntered
<1> HIDE DEF B, M, n
<1>4. ASSUME NEW b \in old PROVE b.begin # B(k + 1)
  <2>1. PICK i \in 1..k : b.begin = B(i) /\ b.size = M(i)
    BY <1>3
  <2>2. i \in 1..n /\ i # k + 1
    BY <1>2
  <2> QED BY <1>1, <1>2, <2>1, <2>2 DEF AreDisjoint
<1>5. ASSUME NEW new, AddsBlock(old, new, B(k + 1), M(k + 1)) PROVE AreEntered(D, k + 1, new)
  <2>1. PICK x : x.begin = B(k + 1) /\ x.size = M(k + 1) /\ new = old \cup {x}
    BY <1>5 DEF AddsBlock
  <2>2. ASSUME NEW b \in new PROVE \E i \in 1..(k + 1) : b.begin = B(i) /\ b.size = M(i)
    <3>1. CASE b = x
      <4>1. k + 1 \in 1..(k + 1)
        OBVIOUS
      <4> QED BY <2>1, <3>1, <4>1
    <3>2. CASE b \in old
      <4>1. PICK i \in 1..k : b.begin = B(i) /\ b.size = M(i)
        BY <1>3, <3>2
      <4>2. i \in 1..(k + 1)
        OBVIOUS
      <4> QED BY <4>1, <4>2
    <3> QED BY <2>1, <3>1, <3>2
  <2>3. ASSUME NEW i \in 1..(k + 1) PROVE \E b \in new : b.begin = B(i) /\ b.size = M(i)
    <3>1. CASE i = k + 1
      BY <2>1, <3>1
    <3>2. CASE i \in 1..k
      BY <1>3, <2>1, <3>2
    <3> QED BY <1>2, <3>1, <3>2
  <2>4. ASSUME NEW b \in new, NEW c \in new, b.begin = c.begin PROVE b = c
    <3>1. CASE b \in old /\ c \in old
      BY <1>3, <2>4, <3>1
    <3>2. CASE b = x \/ c = x
      BY <1>4, <2>1, <2>4, <3>2
    <3> QED BY <2>1, <3>1, <3>2
  <2> QED BY <2>2, <2>3, <2>4 DEF AreEntered, B, M
<1> QED BY <1>4, <1>5 DEF B, M

\* The prologue is about to enter another area, ...
StillEntering(D) ==
  /\ phase = "run"
  /\ \E k \in 0..(NumAreas(D) - 1) :
       /\ code = SubSeq(StartComponent(D), k + 1, Len(StartComponent(D)))
       /\ AreEntered(D, k, cpu.blocks)

\* ... or has entered all of them, and nothing that is left enters another one.
HasEntered(D) ==
  /\ AreEntered(D, NumAreas(D), cpu.blocks)
  /\ phase = "run" => \E S, L : Harmless(S, L) /\ LeadsOn(S, L, code)

PrologueEnters ==
  /\ stage = "loading" => cpu.blocks = {}
  /\ stage = "prologue" =>
       \E D : /\ D = LoadedImage /\ StackFits(D)
              /\ TlsFits(D) => phase = "failed" \/ StillEntering(D) \/ HasEntered(D)

\* The areas lie apart as soon as the loader is ready, if there is room for them.
LEMMA LoadedAreasAreApart ==
  ASSUME LoaderInv, IsLoaded, StackFits(LoadedImage), TlsFits(LoadedImage)
  PROVE  AreasLieApart(LoadedImage)
BY ImageIsSound, AreasAreApart

\* What the prologue begins with.
LEMMA StartIsSequence ==
  ASSUME NEW D, Len(D.sections) \in Nat
  PROVE  /\ NumAreas(D) \in Nat /\ NumAreas(D) >= 2
         /\ \E X : StartComponent(D) \in Seq(X)
         /\ Len(StartComponent(D)) = NumAreas(D) + 10
<1> DEFINE c == StartComponent(D)
           X == {c[i] : i \in 1..Len(c)}
<1>1. HasLength(c) /\ Len(c) = NumAreas(D) + 10
  BY StartEntersAreas
<1> HIDE DEF c
<1>2. c \in Seq(X)
  <2>1. \A i \in 1..Len(c) : c[i] \in X
    OBVIOUS
  <2> HIDE DEF X
  <2> QED BY <1>1, <2>1, LengthOfSeq
<1>3. NumAreas(D) \in Nat /\ NumAreas(D) >= 2
  BY DEF NumAreas
<1> QED BY <1>1, <1>2, <1>3 DEF c

\* The prologue begins, and the memory has no blocks.
LEMMA PrologueBeginsToEnter ==
  ASSUME NEW D, Len(D.sections) \in Nat, cpu.blocks = {}, cpu' = cpu, phase' = "run", code' = StartComponent(D)
  PROVE  StillEntering(D)'
<1> DEFINE c == StartComponent(D)
           n == NumAreas(D)
<1>1. n \in Nat /\ n >= 2 /\ \E X : c \in Seq(X)
  BY StartIsSequence
<1>2. code' = c
  OBVIOUS
<1> HIDE DEF c, n
<1>3. c = SubSeq(c, 1, Len(c))
  BY <1>1, SubSeqFull
<1>4. AreEntered(D, 0, cpu'.blocks)
  BY DEF AreEntered
<1>5. 0 \in 0..(n - 1) /\ code' = SubSeq(c, 0 + 1, Len(c))
  BY <1>1, <1>2, <1>3
<1> QED BY <1>4, <1>5 DEF StillEntering, c, n

\* An area is entered.
LEMMA AreaIsEntered ==
  ASSUME NEW D, Len(D.sections) \in Nat, AreasLieApart(D), StillEntering(D), IsMachine(cpu), ThreadStep
  PROVE  phase' = "failed" \/ StillEntering(D)' \/ HasEntered(D)'
<1> DEFINE c == StartComponent(D)
           n == NumAreas(D)
           I == Head(code)
<1>1. /\ n \in Nat /\ n >= 2 /\ Len(c) = n + 10
      /\ \A i \in 1..n : EntersArea(c[i], AreaBegin(D, i), AreaSize(D, i))
      /\ \A i \in (n + 1)..Len(c) : IsHarmless(c[i])
  BY StartIsSequence, StartEntersAreas
<1>2. PICK X : c \in Seq(X)
  BY StartIsSequence
<1>3. PICK k \in 0..(n - 1) : code = SubSeq(c, k + 1, Len(c)) /\ AreEntered(D, k, cpu.blocks)
  BY DEF StillEntering
<1> HIDE DEF c
<1>4. k + 1 \in 1..n /\ k + 1 \in 1..Len(c) /\ k + 2 \in 1..(Len(c) + 1)
  BY <1>1
<1> HIDE DEF n
<1>5. code # << >> /\ I = c[k + 1] /\ Tail(code) = SubSeq(c, k + 2, Len(c))
  <2>1. Len(c) \in k + 1..Len(c) /\ Len(c) \in Nat
    BY <1>1, <1>4
  <2>2. /\ code \in Seq(X) /\ Len(code) = Len(c) - k /\ code # << >>
        /\ \A i \in 1..(Len(c) - k) : code[i] = c[k + i]
    <3> DEFINE d == SubSeq(c, k + 1, Len(c))
    <3>1. /\ d \in Seq(X) /\ Len(d) = Len(c) - (k + 1) + 1
          /\ \A i \in 1..(Len(c) - (k + 1) + 1) : d[i] = c[(k + 1) + i - 1]
      BY <1>2, <1>4, <2>1
    <3>2. Len(c) - (k + 1) + 1 = Len(c) - k /\ Len(c) - k > 0 /\ \A i \in Int : (k + 1) + i - 1 = k + i
      BY <1>4, <2>1
    <3>3. code = d
      BY <1>3
    <3> HIDE DEF d
    <3>4. d # << >>
      BY <3>1, <3>2
    <3> QED BY <3>1, <3>2, <3>3, <3>4
  <2>3. Head(code) = code[1] /\ code[1] = c[k + 1]
    BY <2>1, <2>2
  <2>4. Tail(code) = SubSeq(c, k + 2, Len(c))
    BY <1>2, <1>3, <1>4, HeadTailOfSubSeq
  <2> QED BY <2>2, <2>3, <2>4
<1>6. I.gik = "REG:=MEM STATIC" /\ I.begin = AreaBegin(D, k + 1) /\ I.size = AreaSize(D, k + 1)
  BY <1>1, <1>4, <1>5 DEF EntersArea
<1>7. PassInstruction
  BY <1>5, <1>6 DEF ThreadStep, PassGuard, PassCall, EnterLoop, LeaveLoop, ReachExit
<1>8. CASE phase' # "failed"
  <2>1. /\ Execute(I, cpu).cpu.error = "" /\ cpu' = Execute(I, cpu).cpu
        /\ phase' = "run" /\ code' = Tail(code)
    BY <1>7, <1>8 DEF PassInstruction
  <2> HIDE DEF I
  <2>2. AreEntered(D, k + 1, cpu'.blocks)
    <3>1. n = NumAreas(D) /\ NumAreas(D) \in Nat
      BY <1>1 DEF n
    <3>2. k \in 0..(NumAreas(D) - 1)
      BY <3>1
    <3>3. \A b \in cpu.blocks : b.begin # I.begin
      BY <1>3, <1>6, <3>1, <3>2, NextIsEntered
    <3>4. AddsBlock(cpu.blocks, cpu'.blocks, AreaBegin(D, k + 1), AreaSize(D, k + 1))
      BY <1>6, <2>1, <3>3, StaticEnters
    <3> QED BY <1>3, <3>1, <3>2, <3>4, NextIsEntered
  <2>3. code' = SubSeq(c, k + 2, Len(c))
    BY <1>5, <2>1
  <2>4. CASE k + 1 < n
    <3>1. k + 1 \in 0..(n - 1) /\ k + 2 = (k + 1) + 1
      BY <1>1, <2>4
    <3> QED BY <2>1, <2>2, <2>3, <3>1 DEF StillEntering, c, n
  <2>5. CASE k + 1 = n
    <3> DEFINE d == SubSeq(c, n + 1, Len(c))
    <3>1. EntersNothing(d)
      <4>1. n + 1 \in 1..(Len(c) + 1) /\ Len(c) \in Nat /\ n \in Nat
        BY <1>1
      <4>2. d \in Seq(X) /\ Len(d) = Len(c) - n /\ \A i \in 1..(Len(c) - n) : d[i] = c[n + i]
        BY <1>2, <4>1
      <4> HIDE DEF d
      <4>3. HasLength(d)
        BY <4>2, LengthOfSeq
      <4>4. \A i \in 1..(Len(c) - n) : n + i \in (n + 1)..Len(c)
        BY <4>1
      <4>5. \A i \in 1..Len(d) : IsHarmless(d[i])
        BY <1>1, <4>2, <4>4
      <4> QED BY <4>3, <4>5 DEF EntersNothing
    <3>2. code' = d
      BY <1>1, <2>3, <2>5
    <3> HIDE DEF d
    <3>3. PICK S, L : Harmless(S, L) /\ d \in Seq(S)
      BY <3>1, HarmlessComponent
    <3>4. LeadsOn(S, L, code')
      <4>1. S \subseteq S \cup L
        OBVIOUS
      <4> QED BY <3>2, <3>3, <4>1 DEF LeadsOn
    <3> QED BY <2>2, <2>5, <3>3, <3>4 DEF HasEntered, n
  <2> QED BY <1>1, <2>4, <2>5
<1> QED BY <1>8

\* When all are entered, none is added.
LEMMA AreasStayEntered ==
  ASSUME NEW D, HasEntered(D), IsMachine(cpu), NextIsWellFormed, ThreadStep
  PROVE  HasEntered(D)'
<1>1. phase = "run"
  BY DEF ThreadStep, PassInstruction, PassGuard, PassCall, EnterLoop, LeaveLoop, ReachExit
<1>2. PICK S, L : Harmless(S, L) /\ LeadsOn(S, L, code)
  BY <1>1 DEF HasEntered
<1>3. LeadsOn(S, L, code')
  BY <1>2, StepLeadsOn
<1>4. cpu'.blocks = cpu.blocks
  <2>1. CASE PassInstruction
    <3>1. code # << >> /\ IsInstruction(Head(code)) /\ cpu' = Execute(Head(code), cpu).cpu
      BY <2>1 DEF PassInstruction
    <3>2. IsTyped(Head(code))
      BY <1>1, <3>1 DEF NextIsWellFormed
    <3>3. Head(code).gik # "REG:=MEM STATIC"
      BY <1>2, <3>1, LeadsToNoStatic
    <3> QED BY <3>1, <3>2, <3>3, OnlyStaticEnters
  <2>2. CASE ~PassInstruction
    BY <2>2 DEF ThreadStep, PassGuard, PassCall, EnterLoop, LeaveLoop, ReachExit
  <2> QED BY <2>1, <2>2
<1> QED BY <1>2, <1>3, <1>4 DEF HasEntered

\* So the invariant is inductive.
LEMMA PrologueKeepsEntering ==
  ASSUME PrologueEnters, LoaderInv, StagesStand, LoadingIsFirst, TwinFollows, NextIsWellFormed, [Next]_vars
  PROVE  PrologueEnters'
<1>1. ASSUME UNCHANGED <<launch, load>> PROVE LoadedImage' = LoadedImage
  BY <1>1 DEF LoadedImage, FileNumber, IsLibrary, File
<1>2. stage = "loading" => cpu.blocks = {}
  BY DEF PrologueEnters
<1>3. CASE LoadFiles
  <2>1. LoaderStep => Loading
    BY DEF LoaderStep, ReadHeader, EnterSegment, CheckEntry, EnterFunctions, EnterSymbols, EnterTls,
           LoadNeeded, Relocate, FinishFile, At
  <2>2. ~IsLoaded
    BY <1>3, <2>1 DEF LoadFiles, Loading, IsLoaded
  <2>3. stage = "loading"
    BY <2>2 DEF StagesStand
  <2> QED BY <1>2, <1>3, <2>3 DEF LoadFiles, threadVars, PrologueEnters
<1>4. CASE BuildPrologue
  <2>1. stage = "loading" /\ IsLoaded
    BY <1>4 DEF BuildPrologue
  <2>2. CASE StackFits(LoadedImage)
    <3>1. /\ stage' = "prologue" /\ phase' = "run" /\ code' = StartComponent(LoadedImage)
          /\ UNCHANGED <<launch, load, cpu>>
      BY <1>4, <2>2 DEF BuildPrologue
    <3>2. PICK D : D = LoadedImage
      OBVIOUS
    <3>3. D = LoadedImage'
      BY <1>1, <3>1, <3>2
    <3>4. Len(D.sections) \in Nat
      BY <2>1, <3>2, ImageIsSound DEF IsSound
    <3>5. StillEntering(D)'
      <4>1. cpu.blocks = {} /\ cpu' = cpu /\ phase' = "run" /\ code' = StartComponent(D)
        BY <1>2, <2>1, <3>1, <3>2
      <4> QED BY <3>4, <4>1, PrologueBeginsToEnter
    <3> QED BY <2>2, <3>1, <3>2, <3>3, <3>5 DEF PrologueEnters
  <2>3. CASE ~StackFits(LoadedImage)
    <3>1. stage' = stage /\ cpu' = cpu
      BY <1>4, <2>3 DEF BuildPrologue, threadVars
    <3> QED BY <1>2, <2>1, <3>1 DEF PrologueEnters
  <2> QED BY <2>2, <2>3
<1>5. CASE ExecuteNode
  <2>1. ThreadStep /\ UNCHANGED <<launch, load, stage>>
    BY <1>5 DEF ExecuteNode
  <2>2. phase = "run"
    BY <2>1 DEF ThreadStep, PassInstruction, PassGuard, PassCall, EnterLoop, LeaveLoop, ReachExit
  <2>3. stage # "loading"
    BY <2>2 DEF LoadingIsFirst
  <2>4. CASE stage = "prologue"
    <3>1. PICK D : /\ D = LoadedImage /\ StackFits(D)
                   /\ TlsFits(D) => phase = "failed" \/ StillEntering(D) \/ HasEntered(D)
      BY <2>4 DEF PrologueEnters
    <3>2. IsLoaded
      BY <2>4 DEF StagesStand
    <3>3. IsMachine(cpu)
      BY DEF TwinFollows, MachinesAreSane, IsSane
    <3>4. ASSUME TlsFits(D) PROVE phase' = "failed" \/ StillEntering(D)' \/ HasEntered(D)'
      <4>1. AreasLieApart(D) /\ Len(D.sections) \in Nat
        BY <3>1, <3>2, <3>4, LoadedAreasAreApart, ImageIsSound DEF IsSound
      <4>2. CASE StillEntering(D)
        BY <2>1, <3>3, <4>1, <4>2, AreaIsEntered
      <4>3. CASE HasEntered(D)
        BY <2>1, <3>3, <4>3, AreasStayEntered
      <4> QED BY <2>2, <3>1, <3>4, <4>2, <4>3
    <3>5. D = LoadedImage' /\ stage' = "prologue"
      BY <1>1, <2>1, <2>4, <3>1
    <3> QED BY <3>1, <3>4, <3>5 DEF PrologueEnters
  <2> QED BY <2>1, <2>3, <2>4 DEF PrologueEnters
<1>6. CASE EnterProgram \/ RecogniseNext \/ FinishNative
  <2>1. stage' = "program"
    BY <1>6 DEF EnterProgram, RecogniseNext, FinishNative
  <2> QED BY <2>1 DEF PrologueEnters
<1>7. CASE UNCHANGED vars
  <2>1. UNCHANGED <<launch, load, stage, phase, code, cpu>>
    BY <1>7 DEF vars, threadVars
  <2>2. CASE stage = "prologue"
    <3>1. PICK D : /\ D = LoadedImage /\ StackFits(D)
                   /\ TlsFits(D) => phase = "failed" \/ StillEntering(D) \/ HasEntered(D)
      BY <2>2 DEF PrologueEnters
    <3>2. D = LoadedImage'
      BY <1>1, <2>1, <3>1
    <3>3. (StillEntering(D) => StillEntering(D)') /\ (HasEntered(D) => HasEntered(D)')
      BY <2>1 DEF StillEntering, HasEntered
    <3> QED BY <2>1, <2>2, <3>1, <3>2, <3>3 DEF PrologueEnters
  <2>3. CASE stage # "prologue"
    BY <1>2, <2>1, <2>3 DEF PrologueEnters
  <2> QED BY <2>2, <2>3
<1> QED BY <1>3, <1>4, <1>5, <1>6, <1>7 DEF Next

\* Where the program begins, the areas are the blocks.
LEMMA EnteredAreasAreBlocks ==
  ASSUME LoaderInv, StagesStand, PrologueEnters
  PROVE  StaticAreasAreBlocks
<1> DEFINE D == LoadedImage
           n == Len(D.sections)
           tlsEnd == HeapStart(D) + Len(TlsContent(D))
           areas == {<<s.start, Len(s.data)>> : s \in Sections(D)}
                      \cup {<<StackBegin(D), StackSize(D)>>, <<HeapStart(D), Len(TlsContent(D))>>}
           blocks == cpu.blocks
           B(i) == AreaBegin(D, i)
           M(i) == AreaSize(D, i)
<1>1. SUFFICES ASSUME Entering, tlsEnd <= HeapEnd(D), tlsEnd <= StackBegin(D)
               PROVE  /\ areas = {<<b.begin, b.size>> : b \in blocks}
                      /\ \A b, c \in blocks : b # c => Block(b.begin, b.size) \cap Block(c.begin, c.size) = {}
  BY DEF StaticAreasAreBlocks
<1>2. TlsFits(D)
  BY <1>1 DEF TlsFits
<1>3. StackFits(D) /\ AreEntered(D, NumAreas(D), blocks)
  BY <1>1, <1>2 DEF PrologueEnters, Entering, StillEntering, HasEntered
<1>4. IsLoaded
  BY <1>1 DEF Entering, StagesStand
<1>5. n \in Nat /\ NumAreas(D) = n + 2
  BY <1>4, ImageIsSound DEF IsSound, NumAreas
<1>6. AreasLieApart(D)
  BY <1>2, <1>3, <1>4, LoadedAreasAreApart
<1>7. /\ \A b \in blocks : \E i \in 1..(n + 2) : b.begin = B(i) /\ b.size = M(i)
      /\ \A i \in 1..(n + 2) : \E b \in blocks : b.begin = B(i) /\ b.size = M(i)
      /\ \A b, c \in blocks : b.begin = c.begin => b = c
  BY <1>3, <1>5 DEF AreEntered
<1>8. /\ \A i \in 1..(n + 2) : B(i) \in Int /\ M(i) \in Nat
      /\ \A i, j \in 1..(n + 2) : i # j => AreDisjoint(B(i), M(i), B(j), M(j))
  BY <1>5, <1>6 DEF AreasLieApart
<1>9. areas = {<<B(i), M(i)>> : i \in 1..(n + 2)}
  <2>1. \A i \in 1..n : B(i) = D.sections[i].start /\ M(i) = Len(D.sections[i].data)
    BY <1>5 DEF AreaBegin, AreaSize
  <2>2. B(n + 1) = StackBegin(D) /\ M(n + 1) = StackSize(D)
    BY <1>5 DEF AreaBegin, AreaSize
  <2>3. B(n + 2) = HeapStart(D) /\ M(n + 2) = Len(TlsContent(D))
    BY <1>5 DEF AreaBegin, AreaSize
  <2>4. {<<s.start, Len(s.data)>> : s \in Sections(D)} = {<<B(i), M(i)>> : i \in 1..n}
    <3> HIDE DEF D, B, M
    <3>1. Sections(D) = {D.sections[i] : i \in 1..n}
      BY DEF Sections, n
    <3> HIDE DEF n
    <3> QED BY <2>1, <3>1
  <2> HIDE DEF D, B, M
  <2>5. areas = {<<B(i), M(i)>> : i \in 1..n} \cup {<<B(n + 1), M(n + 1)>>, <<B(n + 2), M(n + 2)>>}
    BY <2>2, <2>3, <2>4
  <2> HIDE DEF areas, n
  <2>6. 1..(n + 2) = 1..n \cup {n + 1, n + 2}
    BY <1>5
  <2> QED BY <2>5, <2>6
<1> HIDE DEF areas, B, M, blocks, n
<1>10. areas = {<<b.begin, b.size>> : b \in blocks}
  BY <1>7, <1>9
<1>11. ASSUME NEW b \in blocks, NEW c \in blocks, b # c
       PROVE  Block(b.begin, b.size) \cap Block(c.begin, c.size) = {}
  <2>1. PICK i \in 1..(n + 2) : b.begin = B(i) /\ b.size = M(i)
    BY <1>7
  <2>2. PICK j \in 1..(n + 2) : c.begin = B(j) /\ c.size = M(j)
    BY <1>7
  <2>3. i # j
    BY <1>7, <1>11, <2>1, <2>2
  <2>4. AreDisjoint(b.begin, b.size, c.begin, c.size)
    BY <1>8, <2>1, <2>2, <2>3
  <2>5. b.begin \in Int /\ b.size \in Nat /\ c.begin \in Int /\ c.size \in Nat
    BY <1>8, <2>1, <2>2
  <2> QED BY <2>4, <2>5 DEF AreDisjoint, Block
<1> QED BY <1>10, <1>11

\* Sections, stack and thread-local storage are blocks of their own wherever the
\* program begins, whatever has been loaded, if there is room for the last of them.
THEOREM StaticAreasAreAlwaysBlocks == Spec /\ []NextIsWellFormed => []StaticAreasAreBlocks
<1>1. Init => StagesStand /\ LoadingIsFirst /\ PrologueEnters
  <2>1. Init => StagesStand /\ LoadingIsFirst
    BY DEF Init, Begins, StagesStand, LoadingIsFirst
  <2>2. Init => stage = "loading" /\ cpu.blocks = {}
    <3>1. FreshMachine(launch).blocks = {}
      BY DEF FreshMachine
    <3> QED BY <3>1 DEF Init, Begins
  <2> QED BY <2>1, <2>2 DEF PrologueEnters
<1>2. StagesStand /\ [Next]_vars => StagesStand'
  BY StepKeepsStages
<1>3. LoadingIsFirst /\ [Next]_vars => LoadingIsFirst'
  BY LoadingStaysFirst
<1>4. /\ PrologueEnters /\ LoaderInv /\ StagesStand /\ LoadingIsFirst /\ TwinFollows /\ NextIsWellFormed
      /\ [Next]_vars
      => PrologueEnters'
  BY PrologueKeepsEntering
<1>5. LoaderInv /\ StagesStand /\ PrologueEnters => StaticAreasAreBlocks
  BY EnteredAreasAreBlocks
<1> QED BY <1>1, <1>2, <1>3, <1>4, <1>5, LoaderInvHolds, TwinFollowsThroughout, PTL DEF Spec
=============================================================================
