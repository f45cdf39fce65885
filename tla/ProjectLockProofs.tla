--------------------------- MODULE ProjectLockProofs ---------------------------
(***************************************************************************)
(* Proofs about withProjectLock, for any number of calls and projects.     *)
(*                                                                         *)
(* Mutual exclusion needs the shape of the queue: the active calls of a    *)
(* key stand in a line, each behind the call whose promise it awaits, the  *)
(* map entry at its end.  The line is a numbering `rank` of the calls, so  *)
(* that "first and last means alone" (what makes deleting the entry in the *)
(* finally block safe) is arithmetic and not an induction along prev.      *)
(*                                                                         *)
(* For the refinement of FifoLock the line is a sequence, and there is but *)
(* one for each project: two that differ would differ at a first place,    *)
(* where both name the call behind the same promise.                       *)
(***************************************************************************)
EXTENDS ProjectLock, SequenceTheorems, WellFoundedInduction, TLAPS

\* Whom a call waits for made its call earlier and for the same project.
PrevEntered ==
    \A c \in Calls :
        Active(c) /\ prev[c] # NoCall =>
            /\ prev[c] \in Calls
            /\ lockState[prev[c]] # "outside"
            /\ lockKey[prev[c]] = lockKey[c]

RunningIsFirst == \A c \in Calls : lockState[c] = "running" => ChainResolved(prev[c])

SameLine(c, d) == Active(c) /\ Active(d) /\ lockKey[c] = lockKey[d]

Distinct(rank) == \A c, d \in Calls : SameLine(c, d) /\ rank[c] = rank[d] => c = d

FirstIsLeast(rank) ==
    \A c, d \in Calls : SameLine(c, d) /\ ChainResolved(prev[c]) => rank[c] <= rank[d]

Consecutive(rank) ==
    \A c \in Calls :
        Active(c) /\ ~ChainResolved(prev[c]) => rank[c] = rank[prev[c]] + 1

EntryIsGreatest(rank) ==
    \A k \in Keys : projectChains[k] # NoCall =>
        \A c \in Calls : Active(c) /\ lockKey[c] = k => rank[c] <= rank[projectChains[k]]

InLine(rank) ==
    Distinct(rank) /\ FirstIsLeast(rank) /\ Consecutive(rank) /\ EntryIsGreatest(rank)

LockIInv ==
    /\ LockTypeOK
    /\ EntryIffBusy
    /\ PrevEntered
    /\ RunningIsFirst
    /\ \E rank \in [Calls -> Nat] : InLine(rank)

--------------------------------------------------------------------------------

\* The type invariant is inductive by itself.
LEMMA LockTypeStep == LockTypeOK /\ [LockNext]_lockVars => LockTypeOK'
<1> SUFFICES ASSUME LockTypeOK, [LockNext]_lockVars PROVE LockTypeOK'
  OBVIOUS
<1> USE DEF LockTypeOK, LockStates
<1>1. ASSUME NEW c \in Calls, EnterLock(c) PROVE LockTypeOK'
  BY <1>1 DEF EnterLock
<1>2. ASSUME NEW c \in Calls, AcquireLock(c) PROVE LockTypeOK'
  BY <1>2 DEF AcquireLock
<1>3. ASSUME NEW c \in Calls, ReleaseLock(c) PROVE LockTypeOK'
  BY <1>3 DEF ReleaseLock
<1>4. CASE UNCHANGED lockVars
  BY <1>4 DEF lockVars
<1> QED
  BY <1>1, <1>2, <1>3, <1>4 DEF LockNext

LEMMA LockInitIInv == LockInit => LockIInv
<1> SUFFICES ASSUME LockInit PROVE LockIInv
  OBVIOUS
<1> USE DEF LockInit, Active, SameLine
<1>1. LockTypeOK
  BY DEF LockTypeOK, LockStates
<1>2. EntryIffBusy /\ PrevEntered /\ RunningIsFirst
  BY DEF EntryIffBusy, PrevEntered, RunningIsFirst
<1>3. \E rank \in [Calls -> Nat] : InLine(rank)
  <2> DEFINE zero == [c \in Calls |-> 0]
  <2>1. zero \in [Calls -> Nat]
    OBVIOUS
  <2>2. InLine(zero)
    BY DEF InLine, Distinct, FirstIsLeast, Consecutive, EntryIsGreatest
  <2> QED
    BY <2>1, <2>2
<1> QED
  BY <1>1, <1>2, <1>3 DEF LockIInv

\* A call that enters stands behind the entry of the map, or first if the map
\* has none.
LEMMA EnterKeepsLine ==
    ASSUME LockIInv, LockTypeOK', NEW c \in Calls, EnterLock(c) PROVE LockIInv'
<1> USE NoCallAssumption
<1> DEFINE k == lockKey[c]
           last == projectChains[k]
<1>0. PICK rank \in [Calls -> Nat] : InLine(rank)
  BY DEF LockIInv
<1>1. /\ lockState[c] = "outside" /\ ~Active(c) /\ k \in Keys
      /\ prev'[c] = last /\ lockState'[c] = "waiting"
      /\ projectChains'[k] = c /\ lockKey' = lockKey
      /\ \A j \in Keys : j # k => projectChains'[j] = projectChains[j]
      /\ \A d \in Calls : d # c => /\ prev'[d] = prev[d]
                                   /\ lockState'[d] = lockState[d]
  BY DEF EnterLock, LockIInv, LockTypeOK, Active
<1>2. /\ \A d \in Calls : Active(d)' <=> (d = c \/ Active(d))
      /\ \A d \in Calls : d # c => (ChainResolved(d)' <=> ChainResolved(d))
      /\ ~ChainResolved(c) /\ ~ChainResolved(c)'
      /\ ChainResolved(NoCall) /\ ChainResolved(NoCall)'
  BY <1>1 DEF Active, ChainResolved
<1>3. /\ \A d \in Calls : Active(d) => prev[d] # c
      /\ last # NoCall => last \in Calls /\ Active(last) /\ lockKey[last] = k
                          /\ last # c /\ ~ChainResolved(last)
      /\ last = NoCall => \A d \in Calls : lockKey[d] = k => ~Active(d)
  BY <1>1 DEF LockIInv, LockTypeOK, PrevEntered, EntryIffBusy, Active, ChainResolved
<1>4. EntryIffBusy'
  BY <1>1, <1>2, <1>3 DEF LockIInv, EntryIffBusy, LockTypeOK
<1>5. PrevEntered'
  BY <1>1, <1>2, <1>3 DEF LockIInv, PrevEntered, Active
<1>6. RunningIsFirst'
  BY <1>1, <1>2, <1>3 DEF LockIInv, RunningIsFirst, PrevEntered, Active, LockTypeOK
<1>7. \E r \in [Calls -> Nat] : InLine(r)'
  <2>1. PICK r \in [Calls -> Nat] :
          /\ r[c] = IF last = NoCall THEN 0 ELSE rank[last] + 1
          /\ \A d \in Calls : d # c => r[d] = rank[d]
    <3> DEFINE s == [rank EXCEPT ![c] = IF last = NoCall THEN 0 ELSE rank[last] + 1]
    <3>1. s \in [Calls -> Nat]
      BY <1>3
    <3> QED
      BY <3>1
  <2>2. \A d \in Calls : Active(d) /\ lockKey[d] = k => last # NoCall /\ rank[d] <= rank[last]
    BY <1>0, <1>1, <1>3 DEF InLine, EntryIsGreatest
  <2>3. Distinct(r)'
    <3> SUFFICES ASSUME NEW d \in Calls, NEW e \in Calls, SameLine(d, e)', r[d] = r[e]
                 PROVE  d = e
      BY DEF Distinct
    <3>1. \A x \in Calls : Active(x) /\ lockKey[x] = k => r[x] < r[c]
      BY <1>1, <1>3, <2>1, <2>2
    <3>2. CASE d # c /\ e # c
      BY <3>2, <1>0, <1>1, <1>2, <2>1 DEF InLine, Distinct, SameLine
    <3>3. CASE d = c /\ e # c
      BY <3>3, <3>1, <1>1, <1>2, <2>1 DEF SameLine
    <3>4. CASE d # c /\ e = c
      BY <3>4, <3>1, <1>1, <1>2, <2>1 DEF SameLine
    <3> QED
      BY <3>2, <3>3, <3>4
  <2>4. FirstIsLeast(r)'
    BY <1>0, <1>1, <1>2, <1>3, <2>1, <2>2 DEF InLine, FirstIsLeast, SameLine, LockIInv, LockTypeOK
  <2>5. Consecutive(r)'
    <3> SUFFICES ASSUME NEW d \in Calls, Active(d)', ~ChainResolved(prev[d])'
                 PROVE  r[d] = r[prev'[d]] + 1
      BY DEF Consecutive
    <3>1. CASE d = c
      BY <3>1, <1>1, <1>2, <1>3, <2>1
    <3>2. CASE d # c
      BY <3>2, <1>0, <1>1, <1>2, <1>3, <2>1 DEF InLine, Consecutive, LockIInv, LockTypeOK
    <3> QED
      BY <3>1, <3>2
  <2>6. EntryIsGreatest(r)'
    <3> SUFFICES ASSUME NEW j \in Keys, projectChains'[j] # NoCall,
                        NEW d \in Calls, Active(d)', lockKey[d] = j
                 PROVE  r[d] <= r[projectChains'[j]]
      BY <1>1 DEF EntryIsGreatest
    <3>1. CASE j = k
      BY <3>1, <1>1, <1>2, <1>3, <2>1, <2>2
    <3>2. CASE j # k
      BY <3>2, <1>0, <1>1, <1>2, <2>1
         DEF InLine, EntryIsGreatest, LockIInv, LockTypeOK, EntryIffBusy
    <3> QED
      BY <3>1, <3>2
  <2> QED
    BY <2>1, <2>3, <2>4, <2>5, <2>6 DEF InLine
<1> QED
  BY <1>4, <1>5, <1>6, <1>7 DEF LockIInv

\* Taking the lock moves nobody in the line.
LEMMA AcquireKeepsLine ==
    ASSUME LockIInv, LockTypeOK', NEW c \in Calls, AcquireLock(c) PROVE LockIInv'
<1> USE NoCallAssumption
<1>0. PICK rank \in [Calls -> Nat] : InLine(rank)
  BY DEF LockIInv
<1>1. /\ prev' = prev /\ lockKey' = lockKey /\ projectChains' = projectChains
      /\ lockState[c] = "waiting" /\ lockState'[c] = "running" /\ ChainResolved(prev[c])
      /\ \A d \in Calls : d # c => lockState'[d] = lockState[d]
  BY DEF AcquireLock, LockIInv, LockTypeOK
<1>2. /\ \A d \in Calls : Active(d)' <=> Active(d)
      /\ \A d \in Calls \cup {NoCall} : ChainResolved(d)' <=> ChainResolved(d)
      /\ \A d \in Calls : prev[d] \in Calls \cup {NoCall}
  BY <1>1 DEF Active, ChainResolved, LockIInv, LockTypeOK
<1>3. EntryIffBusy'
  BY <1>1, <1>2 DEF LockIInv, EntryIffBusy, LockTypeOK
<1>4. PrevEntered'
  BY <1>1, <1>2 DEF LockIInv, PrevEntered
<1>5. RunningIsFirst'
  BY <1>1, <1>2 DEF LockIInv, RunningIsFirst
<1>6. Distinct(rank)' /\ FirstIsLeast(rank)'
  BY <1>0, <1>1, <1>2 DEF InLine, Distinct, FirstIsLeast, SameLine
<1>7. Consecutive(rank)' /\ EntryIsGreatest(rank)'
  BY <1>0, <1>1, <1>2 DEF InLine, Consecutive, EntryIsGreatest
<1> QED
  BY <1>3, <1>4, <1>5, <1>6, <1>7 DEF LockIInv, InLine

\* The call that returns was first; the next one in line becomes first, and if
\* the entry of the map is its own then it was alone.
LEMMA ReleaseKeepsLine ==
    ASSUME LockIInv, LockTypeOK', NEW c \in Calls, ReleaseLock(c) PROVE LockIInv'
<1> USE NoCallAssumption
<1> DEFINE k == lockKey[c]
<1>0. PICK rank \in [Calls -> Nat] : InLine(rank)
  BY DEF LockIInv
<1>1. /\ prev' = prev /\ lockKey' = lockKey /\ k \in Keys
      /\ lockState[c] = "running" /\ lockState'[c] = "released"
      /\ \A d \in Calls : d # c => lockState'[d] = lockState[d]
      /\ \A j \in Keys : j # k => projectChains'[j] = projectChains[j]
      /\ projectChains'[k] = IF projectChains[k] = c THEN NoCall ELSE projectChains[k]
  BY DEF ReleaseLock, LockIInv, LockTypeOK
<1>2. /\ Active(c) /\ ChainResolved(prev[c]) /\ ~ChainResolved(c) /\ ChainResolved(c)'
      /\ \A d \in Calls : Active(d)' <=> (Active(d) /\ d # c)
      /\ \A d \in Calls : d # c => (ChainResolved(d)' <=> ChainResolved(d))
      /\ ChainResolved(NoCall) /\ ChainResolved(NoCall)'
      /\ \A d \in Calls : prev[d] \in Calls \cup {NoCall}
  BY <1>1 DEF Active, ChainResolved, LockIInv, RunningIsFirst, LockTypeOK
<1>3. \A d \in Calls : Active(d) /\ lockKey[d] = k /\ d # c => rank[c] < rank[d]
  BY <1>0, <1>1, <1>2 DEF InLine, FirstIsLeast, Distinct, SameLine
<1>4. projectChains[k] = c => \A d \in Calls : Active(d) /\ lockKey[d] = k => d = c
  BY <1>0, <1>1, <1>2, <1>3 DEF InLine, EntryIsGreatest
<1>5. EntryIffBusy'
  BY <1>1, <1>2, <1>4 DEF LockIInv, EntryIffBusy, LockTypeOK
<1>6. PrevEntered'
  BY <1>1, <1>2 DEF LockIInv, PrevEntered
<1>7. RunningIsFirst'
  BY <1>1, <1>2 DEF LockIInv, RunningIsFirst
<1>8. Distinct(rank)'
  BY <1>0, <1>1, <1>2 DEF InLine, Distinct, SameLine
<1>9. FirstIsLeast(rank)'
  <2> SUFFICES ASSUME NEW d \in Calls, NEW e \in Calls, SameLine(d, e)',
                      ChainResolved(prev[d])'
               PROVE  rank[d] <= rank[e]
    BY DEF FirstIsLeast
  <2>1. SameLine(d, e) /\ d # c /\ e # c
    BY <1>1, <1>2 DEF SameLine
  <2>2. CASE prev[d] = c
    <3>1. rank[d] = rank[c] + 1 /\ lockKey[d] = k
      BY <2>1, <2>2, <1>0, <1>2 DEF InLine, Consecutive, SameLine, LockIInv, PrevEntered
    <3>2. rank[c] < rank[e]
      BY <3>1, <2>1, <1>3 DEF SameLine
    <3> QED
      BY <3>1, <3>2, <1>0
  <2>3. CASE prev[d] # c
    BY <2>1, <2>3, <1>0, <1>1, <1>2 DEF InLine, FirstIsLeast
  <2> QED
    BY <2>2, <2>3
<1>10. Consecutive(rank)'
  BY <1>0, <1>1, <1>2 DEF InLine, Consecutive
<1>11. EntryIsGreatest(rank)'
  BY <1>0, <1>1, <1>2 DEF InLine, EntryIsGreatest
<1> QED
  BY <1>5, <1>6, <1>7, <1>8, <1>9, <1>10, <1>11 DEF LockIInv, InLine

LEMMA LockStep == LockIInv /\ [LockNext]_lockVars => LockIInv'
<1> SUFFICES ASSUME LockIInv, [LockNext]_lockVars PROVE LockIInv'
  OBVIOUS
<1>1. LockTypeOK'
  BY LockTypeStep DEF LockIInv
<1>2. CASE LockNext
  BY <1>1, <1>2, EnterKeepsLine, AcquireKeepsLine, ReleaseKeepsLine DEF LockNext
<1>3. CASE UNCHANGED lockVars
  BY <1>3 DEF lockVars, LockIInv, LockTypeOK, EntryIffBusy, PrevEntered, RunningIsFirst,
     InLine, Distinct, FirstIsLeast, Consecutive, EntryIsGreatest, SameLine, Active,
     ChainResolved
<1> QED
  BY <1>2, <1>3

\* Two first calls of a line are one call.
LEMMA LineExcludes == LockIInv => MutualExclusion
<1> SUFFICES ASSUME LockIInv, NEW c \in Calls, NEW d \in Calls,
                    lockState[c] = "running", lockState[d] = "running",
                    lockKey[c] = lockKey[d]
             PROVE  c = d
  BY DEF MutualExclusion
<1>1. PICK rank \in [Calls -> Nat] : InLine(rank)
  BY DEF LockIInv
<1>2. SameLine(c, d) /\ SameLine(d, c)
  BY DEF SameLine, Active
<1>3. rank[c] <= rank[d] /\ rank[d] <= rank[c]
  BY <1>1, <1>2 DEF LockIInv, RunningIsFirst, InLine, FirstIsLeast
<1> QED
  BY <1>1, <1>2, <1>3 DEF InLine, Distinct

LEMMA LockInvariant == LockSpec => []LockIInv
<1> QED
  BY LockInitIInv, LockStep, PTL DEF LockSpec

--------------------------------------------------------------------------------

\* The variables of withProjectLock keep their types.
THEOREM LockTypeCorrect == LockSpec => []LockTypeOK
<1>1. LockIInv => LockTypeOK
  BY DEF LockIInv
<1> QED
  BY <1>1, LockInvariant, PTL

\* withProjectLock never runs two edits of one project at once, however many
\* calls are made and in whatever order their promises resolve.
THEOREM LockExcludes == LockSpec => []MutualExclusion
<1> QED
  BY LineExcludes, LockInvariant, PTL

\* The map holds an entry for a project exactly while a call on it is queued or
\* running: no entry leaks, none is dropped while someone may still queue on it.
THEOREM MapEntryExact == LockSpec => []EntryIffBusy
<1>1. LockIInv => EntryIffBusy
  BY DEF LockIInv
<1> QED
  BY <1>1, LockInvariant, PTL

\* Of any numbers there is a least one.
LEMMA LeastNumber ==
    ASSUME NEW T, T \subseteq Nat, T # {}
    PROVE  \E n \in T : \A m \in T : n <= m
<1>1. PICK n \in T : \A m \in T : ~(<<m, n>> \in OpToRel(<, Nat))
  BY NatLessThanWellFounded, WFMin
<1>2. \A m \in T : ~(m < n)
  BY <1>1 DEF OpToRel
<1> QED
  BY <1>2

\* Nobody waits in vain: among the calls of a project that wait or run there is one that no
\* promise holds back, so that it runs or can go on (`await prev`, compose.service.ts:73).
SomebodyGoesOn ==
    \A c \in Calls : lockState[c] = "waiting" =>
        \E d \in Calls : SameLine(c, d) /\ ChainResolved(prev[d])

\* It is the one that made its call first: whom it would wait for came before it.
LEMMA FirstGoesOn == LockIInv => SomebodyGoesOn
<1> SUFFICES ASSUME LockIInv, NEW c \in Calls, lockState[c] = "waiting"
             PROVE  \E d \in Calls : SameLine(c, d) /\ ChainResolved(prev[d])
  BY DEF SomebodyGoesOn
<1>1. PICK rank \in [Calls -> Nat] : Consecutive(rank)
  BY DEF LockIInv, InLine
<1> DEFINE Ranks == {rank[d] : d \in {e \in Calls : SameLine(c, e)}}
<1>2. SameLine(c, c)
  BY DEF SameLine, Active
<1>3. Ranks \subseteq Nat /\ Ranks # {}
  BY <1>2
<1>4. PICK n \in Ranks : \A m \in Ranks : n <= m
  BY <1>3, LeastNumber
<1>5. PICK d \in Calls : SameLine(c, d) /\ rank[d] = n
  BY <1>4
<1>6. ChainResolved(prev[d])
  <2> SUFFICES ASSUME ~ChainResolved(prev[d]) PROVE FALSE
    OBVIOUS
  <2>1. /\ prev[d] \in Calls /\ lockKey[prev[d]] = lockKey[d]
        /\ lockState[prev[d]] \notin {"outside", "released"}
    BY <1>5 DEF LockIInv, PrevEntered, ChainResolved, SameLine
  <2>2. SameLine(c, prev[d])
    BY <1>5, <2>1 DEF SameLine, Active, LockIInv, LockTypeOK, LockStates
  <2>3. rank[d] = rank[prev[d]] + 1
    BY <1>1, <1>5 DEF Consecutive, SameLine
  <2>4. rank[prev[d]] \in Ranks /\ rank[prev[d]] \in Nat
    BY <2>1, <2>2
  <2> QED
    BY <1>4, <1>5, <2>3, <2>4
<1> QED
  BY <1>5, <1>6

\* The calls for a project never wait for one another in a circle, nor for a promise that
\* nobody will resolve.
THEOREM LockIsNeverStuck == LockSpec => []SomebodyGoesOn
<1> QED
  BY FirstGoesOn, LockInvariant, PTL

--------------------------------------------------------------------------------
\* The lock is a FIFO lock

\* The calls of a project in line: those that wait or run, each behind the one whose promise it
\* awaits, the call in the map last.
IsLine(k, line) ==
    /\ line \in Seq(Calls)
    /\ \A c \in Calls : Active(c) /\ lockKey[c] = k => \E i \in 1 .. Len(line) : line[i] = c
    /\ \A i \in 1 .. Len(line) : Active(line[i]) /\ lockKey[line[i]] = k
    /\ \A i, j \in 1 .. Len(line) : line[i] = line[j] => i = j
    /\ \A i \in 1 .. Len(line) :
         IF i = 1 THEN ChainResolved(prev[line[i]]) ELSE prev[line[i]] = line[i - 1]
    /\ line # <<>> => projectChains[k] = line[Len(line)]
    /\ line = <<>> => projectChains[k] = NoCall

\* The refinement mapping: what FifoLock calls the queue and the runners.
lineOf == [k \in Keys |-> CHOOSE line : IsLine(k, line)]
runners == {c \in Calls : lockState[c] = "running"}

Queue == INSTANCE FifoLock WITH queue <- lineOf, holding <- runners

\* The line of a project is one: two lines agree from their first call on.
LEMMA OneLine ==
    ASSUME LockTypeOK, NEW k \in Keys, NEW q, NEW r, IsLine(k, q), IsLine(k, r)
    PROVE  q = r
<1> USE NoCallAssumption
<1>1. /\ q \in Seq(Calls) /\ r \in Seq(Calls) /\ Len(q) \in Nat /\ Len(r) \in Nat
      /\ \A i \in 1 .. Len(q) : q[i] \in Calls /\ ~ChainResolved(q[i])
      /\ \A i \in 1 .. Len(r) : r[i] \in Calls /\ ~ChainResolved(r[i])
      /\ \A i \in 1 .. Len(q) : \E j \in 1 .. Len(r) : r[j] = q[i]
      /\ \A i \in 1 .. Len(r) : \E j \in 1 .. Len(q) : q[j] = r[i]
  <2>1. q \in Seq(Calls) /\ r \in Seq(Calls) /\ Len(q) \in Nat /\ Len(r) \in Nat
    BY LenProperties DEF IsLine
  <2>2. \A c \in Calls : Active(c) => ~ChainResolved(c)
    BY DEF Active, ChainResolved
  <2>3. \A i \in 1 .. Len(q) : q[i] \in Calls /\ ~ChainResolved(q[i])
    BY <2>1, <2>2, ElementOfSeq DEF IsLine
  <2>4. \A i \in 1 .. Len(r) : r[i] \in Calls /\ ~ChainResolved(r[i])
    BY <2>1, <2>2, ElementOfSeq DEF IsLine
  <2>5. \A i \in 1 .. Len(q) : \E j \in 1 .. Len(r) : r[j] = q[i]
    BY <2>3 DEF IsLine
  <2>6. \A i \in 1 .. Len(r) : \E j \in 1 .. Len(q) : q[j] = r[i]
    BY <2>4 DEF IsLine
  <2> QED
    BY <2>1, <2>3, <2>4, <2>5, <2>6
<1>2. ASSUME NEW i \in 1 .. Len(q), \A h \in 1 .. Len(q) : h < i => h <= Len(r) /\ q[h] = r[h]
      PROVE  i <= Len(r) /\ q[i] = r[i]
  <2>1. PICK j \in 1 .. Len(r) : r[j] = q[i]
    BY <1>1
  <2>2. CASE i = 1
    <3>1. ChainResolved(prev[r[j]])
      BY <2>1, <2>2 DEF IsLine
    <3>2. j = 1
      <4> SUFFICES ASSUME j # 1 PROVE FALSE
        OBVIOUS
      <4>1. prev[r[j]] = r[j - 1] /\ j - 1 \in 1 .. Len(r)
        BY <1>1 DEF IsLine
      <4> QED
        BY <1>1, <3>1, <4>1
    <3> QED
      BY <1>1, <2>1, <2>2, <3>2
  <2>3. CASE i # 1
    <3>1. prev[q[i]] = q[i - 1] /\ i - 1 \in 1 .. Len(q) /\ i - 1 < i
      BY <1>1, <2>3 DEF IsLine
    <3>2. i - 1 <= Len(r) /\ q[i - 1] = r[i - 1] /\ i - 1 \in 1 .. Len(r)
      <4>1. i - 1 <= Len(r) /\ q[i - 1] = r[i - 1]
        BY <1>2, <3>1
      <4> QED
        BY <1>1, <3>1, <4>1
    <3>3. j # 1
      <4> SUFFICES ASSUME j = 1 PROVE FALSE
        OBVIOUS
      <4>1. ChainResolved(prev[r[j]])
        BY DEF IsLine
      <4> QED
        BY <1>1, <2>1, <3>1, <4>1
    <3>4. prev[r[j]] = r[j - 1] /\ j - 1 \in 1 .. Len(r)
      BY <1>1, <3>3 DEF IsLine
    <3>5. r[j - 1] = r[i - 1]
      BY <2>1, <3>1, <3>2, <3>4
    <3>6. j - 1 = i - 1
      BY <3>2, <3>4, <3>5 DEF IsLine
    <3>7. j = i
      BY <3>6
    <3> QED
      BY <1>1, <2>1, <3>7
  <2> QED
    BY <2>2, <2>3
<1>3. \A i \in 1 .. Len(q) : i <= Len(r) /\ q[i] = r[i]
  <2> DEFINE Bad == {i \in 1 .. Len(q) : ~(i <= Len(r) /\ q[i] = r[i])}
  <2> SUFFICES ASSUME Bad # {} PROVE FALSE
    OBVIOUS
  <2>1. Bad \subseteq Nat
    BY <1>1
  <2>2. PICK i \in Bad : \A m \in Bad : i <= m
    BY <2>1, LeastNumber
  <2>3. ASSUME NEW h \in 1 .. Len(q), h < i
        PROVE  h <= Len(r) /\ q[h] = r[h]
    <3>1. h \notin Bad
      BY <1>1, <2>1, <2>2, <2>3
    <3> QED
      BY <3>1
  <2> QED
    BY <1>2, <2>2, <2>3
<1>4. Len(r) <= Len(q)
  <2> SUFFICES ASSUME Len(q) < Len(r) PROVE FALSE
    BY <1>1
  <2> DEFINE n == Len(q) + 1
  <2>1. n \in 1 .. Len(r)
    BY <1>1
  <2>2. PICK j \in 1 .. Len(q) : q[j] = r[n]
    BY <1>1, <2>1
  <2>3. r[j] = r[n] /\ j \in 1 .. Len(r)
    BY <1>1, <1>3, <2>2
  <2>4. j = n
    BY <2>1, <2>3 DEF IsLine
  <2> QED
    BY <1>1, <2>4
<1>5. Len(q) <= Len(r)
  <2>1. CASE Len(q) = 0
    BY <1>1, <2>1
  <2>2. CASE Len(q) # 0
    BY <1>1, <1>3, <2>2
  <2> QED
    BY <2>1, <2>2
<1>6. Len(q) = Len(r)
  BY <1>1, <1>4, <1>5
<1> QED
  BY <1>1, <1>3, <1>6, SeqEqual


\* So it is the one the mapping takes.
LinesAreOne == \A k \in Keys : \A q \in Seq(Calls) : IsLine(k, q) => lineOf[k] = q

LEMMA LineIsIt == LockTypeOK => LinesAreOne
<1> SUFFICES ASSUME LockTypeOK, NEW k \in Keys, NEW q \in Seq(Calls), IsLine(k, q)
             PROVE  lineOf[k] = q
  BY DEF LinesAreOne
<1>1. IsLine(k, CHOOSE line : IsLine(k, line))
  OBVIOUS
<1> QED
  BY <1>1, OneLine DEF lineOf

EveryLine == \A k \in Keys : IsLine(k, lineOf[k])

LEMMA LinesStart == LockInit => EveryLine /\ Queue!Init
<1> SUFFICES ASSUME LockInit PROVE EveryLine /\ Queue!Init
  OBVIOUS
<1>1. LockTypeOK /\ \A c \in Calls : ~Active(c)
  BY DEF LockInit, LockTypeOK, LockStates, Active
<1>2. ASSUME NEW k \in Keys
      PROVE  IsLine(k, <<>>)
  BY <1>1, EmptySeq DEF IsLine, LockInit
<1>3. \A k \in Keys : lineOf[k] = <<>>
  BY <1>1, <1>2, LineIsIt, EmptySeq DEF LinesAreOne
<1>4. lineOf = [k \in Keys |-> <<>>]
  BY <1>3 DEF lineOf
<1> QED
  BY <1>2, <1>3, <1>4 DEF LockInit, EveryLine, runners, Queue!Init


\* Whoever waits for nobody is first in line.
LEMMA FirstInLine ==
    ASSUME LockTypeOK, NEW k \in Keys, NEW q, IsLine(k, q),
           NEW c \in Calls, Active(c), lockKey[c] = k, ChainResolved(prev[c])
    PROVE  q # <<>> /\ q \in Seq(Calls) /\ Len(q) \in Nat \ {0} /\ q[1] = c /\ Head(q) = c
<1>1. q \in Seq(Calls) /\ Len(q) \in Nat
  BY LenProperties DEF IsLine
<1>2. PICK i \in 1 .. Len(q) : q[i] = c
  BY DEF IsLine
<1>3. i = 1
  <2> SUFFICES ASSUME i # 1 PROVE FALSE
    OBVIOUS
  <2>1. prev[c] = q[i - 1] /\ i - 1 \in 1 .. Len(q)
    BY <1>1, <1>2 DEF IsLine
  <2>2. Active(prev[c]) /\ prev[c] \in Calls
    BY <1>1, <2>1, ElementOfSeq DEF IsLine
  <2> QED
    BY <2>2, NoCallAssumption DEF Active, ChainResolved
<1> QED
  BY <1>1, <1>2, <1>3, EmptySeq

\* Only the line of the project that a step is about moves.
LEMMA OtherLines ==
    ASSUME LockTypeOK, NEW c \in Calls, NEW k \in Keys, NEW q, IsLine(k, q),
           k # lockKey[c] \/ (prev' = prev /\ (Active(c)' <=> Active(c))), lockKey' = lockKey,
           \A d \in Calls \ {c} : lockState'[d] = lockState[d] /\ prev'[d] = prev[d],
           lockState[c] # "released", projectChains'[k] = projectChains[k]
    PROVE  IsLine(k, q)'
<1> USE NoCallAssumption
<1>1. q \in Seq(Calls) /\ Len(q) \in Nat /\ \A i \in 1 .. Len(q) : q[i] \in Calls
  BY LenProperties, ElementOfSeq DEF IsLine
<1>2. \A d \in Calls : lockKey[d] = k => (Active(d)' <=> Active(d)) /\ prev'[d] = prev[d]
  BY DEF Active
<1>3. \A d \in Calls \cup {NoCall} : ChainResolved(d) => ChainResolved(d)'
  BY DEF ChainResolved
<1>4. \A i \in 1 .. Len(q) : lockKey[q[i]] = k /\ prev[q[i]] \in Calls \cup {NoCall}
  BY <1>1 DEF IsLine, LockTypeOK
<1>5. \A i \in 1 .. Len(q) : Active(q[i])' /\ lockKey'[q[i]] = k
  BY <1>1, <1>2, <1>4 DEF IsLine
<1>6. \A d \in Calls : Active(d)' /\ lockKey'[d] = k => \E i \in 1 .. Len(q) : q[i] = d
  BY <1>2 DEF IsLine
<1>7. \A i \in 1 .. Len(q) :
        IF i = 1 THEN ChainResolved(prev[q[i]])' ELSE prev'[q[i]] = q[i - 1]
  <2>1. \A i \in 1 .. Len(q) : prev'[q[i]] = prev[q[i]]
    BY <1>1, <1>2, <1>4
  <2>2. \A i \in 1 .. Len(q) : i = 1 => ChainResolved(prev[q[i]])'
    <3> SUFFICES ASSUME 1 \in 1 .. Len(q) PROVE ChainResolved(prev[q[1]])'
      OBVIOUS
    <3>1. ChainResolved(prev[q[1]]) /\ prev[q[1]] \in Calls \cup {NoCall}
      BY <1>4 DEF IsLine
    <3> QED
      BY <2>1, <3>1 DEF ChainResolved
  <2> QED
    BY <2>1, <2>2 DEF IsLine
<1> QED
  BY <1>1, <1>5, <1>6, <1>7 DEF IsLine

LEMMA EnterIsRequest ==
    ASSUME LockTypeOK, EveryLine, LinesAreOne', NEW c \in Calls, EnterLock(c)
    PROVE  EveryLine' /\ Queue!Next
<1> USE NoCallAssumption
<1>0. PICK k \in Keys : k = lockKey[c]
  BY DEF LockTypeOK
<1>1. /\ lockState[c] = "outside" /\ ~Active(c)
      /\ lockState' = [lockState EXCEPT ![c] = "waiting"] /\ lockKey' = lockKey
      /\ prev'[c] = projectChains[k] /\ \A d \in Calls \ {c} : prev'[d] = prev[d]
      /\ projectChains'[k] = c /\ \A j \in Keys \ {k} : projectChains'[j] = projectChains[j]
  BY <1>0 DEF EnterLock, LockTypeOK, Active
<1>2. /\ lockState'[c] = "waiting" /\ \A d \in Calls \ {c} : lockState'[d] = lockState[d]
      /\ \A d \in Calls : Active(d)' <=> (Active(d) \/ d = c)
  BY <1>1 DEF LockTypeOK, Active
<1>3. PICK q \in Seq(Calls) : q = lineOf[k] /\ IsLine(k, q)
  BY <1>1 DEF EveryLine, IsLine
<1>4. PICK r \in Seq(Calls) : r = Append(q, c)
  BY AppendProperties
<1>5. /\ Len(q) \in Nat /\ Len(r) = Len(q) + 1 /\ r[Len(r)] = c
      /\ \A i \in 1 .. Len(q) : r[i] = q[i] /\ q[i] \in Calls /\ q[i] # c
  <2>1. Len(q) \in Nat /\ \A i \in 1 .. Len(q) : q[i] \in Calls
    BY <1>3, LenProperties, ElementOfSeq
  <2>2. Len(r) = Len(q) + 1 /\ r[Len(r)] = c /\ \A i \in 1 .. Len(q) : r[i] = q[i]
    BY <1>4, <2>1, AppendProperties
  <2> QED
    BY <1>0, <1>1, <1>3, <2>1, <2>2 DEF IsLine
<1>6. IsLine(k, r)'
  <2>1. \A d \in Calls : Active(d)' /\ lockKey'[d] = k => \E i \in 1 .. Len(r) : r[i] = d
    <3> SUFFICES ASSUME NEW d \in Calls, Active(d)', lockKey[d] = k
                 PROVE  \E i \in 1 .. Len(r) : r[i] = d
      BY <1>0, <1>1
    <3>1. CASE d = c
      BY <1>5, <3>1
    <3>2. CASE d # c
      <4>1. PICK i \in 1 .. Len(q) : q[i] = d
        BY <1>2, <1>3, <3>2 DEF IsLine
      <4> QED
        BY <1>5, <4>1
    <3> QED
      BY <3>1, <3>2
  <2>2. \A i \in 1 .. Len(r) : Active(r[i])' /\ lockKey'[r[i]] = k
    <3> SUFFICES ASSUME NEW i \in 1 .. Len(r) PROVE Active(r[i])' /\ lockKey[r[i]] = k
      BY <1>0, <1>1
    <3>1. i = Len(r) \/ i \in 1 .. Len(q)
      BY <1>5
    <3> QED
      BY <1>0, <1>2, <1>3, <1>5, <3>1 DEF IsLine, Active
  <2>3. \A i, j \in 1 .. Len(r) : r[i] = r[j] => i = j
    BY <1>3, <1>5 DEF IsLine
  <2>4. ASSUME NEW i \in 1 .. Len(r)
        PROVE  IF i = 1 THEN ChainResolved(prev[r[i]])' ELSE prev'[r[i]] = r[i - 1]
    <3>1. CASE i \in 1 .. Len(q)
      <4>1. r[i] = q[i] /\ prev'[r[i]] = prev[q[i]]
        BY <1>1, <1>5, <3>1
      <4>2. CASE i = 1
        <5>1. ChainResolved(prev[q[1]]) /\ prev[q[1]] \in Calls \cup {NoCall}
          BY <1>3, <1>5, <3>1, <4>2 DEF IsLine, LockTypeOK
        <5> QED
          BY <1>1, <1>2, <4>1, <4>2, <5>1 DEF ChainResolved
      <4>3. CASE i # 1
        <5>1. prev[q[i]] = q[i - 1] /\ r[i - 1] = q[i - 1]
          BY <1>3, <1>5, <3>1, <4>3 DEF IsLine
        <5> QED
          BY <4>1, <4>3, <5>1
      <4> QED
        BY <4>2, <4>3
    <3>2. CASE i = Len(q) + 1
      <4>1. r[i] = c /\ prev'[r[i]] = projectChains[k]
        BY <1>1, <1>5, <3>2
      <4>2. CASE i = 1
        <5>1. projectChains[k] = NoCall
          BY <1>3, <1>5, <3>2, <4>2, EmptySeq DEF IsLine
        <5> QED
          BY <4>1, <4>2, <5>1 DEF ChainResolved
      <4>3. CASE i # 1
        <5>1. Len(q) \in 1 .. Len(q) /\ q # <<>> /\ i - 1 = Len(q)
          BY <1>5, <3>2, <4>3, EmptySeq
        <5>2. projectChains[k] = q[Len(q)] /\ r[i - 1] = q[Len(q)]
          BY <1>3, <1>5, <5>1 DEF IsLine
        <5> QED
          BY <4>1, <4>3, <5>2
      <4> QED
        BY <4>2, <4>3
    <3> QED
      BY <1>5, <3>1, <3>2
  <2>5. r # <<>>
    BY <1>5, EmptySeq
  <2> QED
    BY <1>1, <1>5, <2>1, <2>2, <2>3, <2>4, <2>5 DEF IsLine
<1>7. lineOf'[k] = r
  BY <1>1, <1>6 DEF LinesAreOne
<1>8. ASSUME NEW j \in Keys \ {k}
      PROVE  lineOf'[j] = lineOf[j] /\ IsLine(j, lineOf[j])'
  <2>1. PICK p \in Seq(Calls) : p = lineOf[j] /\ IsLine(j, p)
    BY DEF EveryLine, IsLine
  <2>2. IsLine(j, p)'
    BY <1>0, <1>1, <1>2, <2>1, OtherLines
  <2>3. lineOf'[j] = p
    BY <2>2 DEF LinesAreOne
  <2> QED
    BY <2>1, <2>2, <2>3
<1>9. EveryLine'
  <2>1. ASSUME NEW j \in Keys
        PROVE  IsLine(j, lineOf[j])'
    BY <1>6, <1>7, <1>8
  <2> QED
    BY <2>1 DEF EveryLine
<1>10. lineOf' = [lineOf EXCEPT ![k] = Append(lineOf[k], c)]
  <2>1. \A j \in Keys : lineOf'[j] = [lineOf EXCEPT ![k] = Append(lineOf[k], c)][j]
    BY <1>1, <1>3, <1>4, <1>7, <1>8 DEF lineOf
  <2> QED
    BY <2>1 DEF lineOf
<1>11. runners' = runners
  BY <1>1, <1>2 DEF runners
<1>12. \A j \in Keys : \A i \in DOMAIN lineOf[j] : lineOf[j][i] # c
  <2> SUFFICES ASSUME NEW j \in Keys, NEW i \in DOMAIN lineOf[j] PROVE lineOf[j][i] # c
    OBVIOUS
  <2>1. PICK p \in Seq(Calls) : p = lineOf[j] /\ IsLine(j, p)
    BY DEF EveryLine, IsLine
  <2>2. i \in 1 .. Len(p)
    BY <2>1, LenProperties
  <2> QED
    BY <1>1, <2>1, <2>2 DEF IsLine
<1>13. Queue!Request(c, k)
  BY <1>10, <1>11, <1>12 DEF Queue!Request
<1> QED
  BY <1>1, <1>9, <1>13 DEF Queue!Next

LEMMA AcquireIsGrant ==
    ASSUME LockTypeOK, EveryLine, LinesAreOne', NEW c \in Calls, AcquireLock(c)
    PROVE  EveryLine' /\ Queue!Next
<1>0. PICK k \in Keys : k = lockKey[c]
  BY DEF LockTypeOK
<1>1. /\ lockState[c] = "waiting" /\ ChainResolved(prev[c]) /\ Active(c)
      /\ lockState' = [lockState EXCEPT ![c] = "running"]
      /\ UNCHANGED <<projectChains, prev, lockKey>>
  BY DEF AcquireLock, Active
<1>2. /\ lockState'[c] = "running" /\ \A d \in Calls \ {c} : lockState'[d] = lockState[d]
      /\ Active(c)'
  BY <1>1 DEF LockTypeOK, Active
<1>3. ASSUME NEW j \in Keys
      PROVE  lineOf'[j] = lineOf[j] /\ IsLine(j, lineOf[j])'
  <2>1. PICK p \in Seq(Calls) : p = lineOf[j] /\ IsLine(j, p)
    BY DEF EveryLine, IsLine
  <2>2. IsLine(j, p)'
    BY <1>1, <1>2, <2>1, OtherLines
  <2>3. lineOf'[j] = p
    BY <2>2 DEF LinesAreOne
  <2> QED
    BY <2>1, <2>2, <2>3
<1>4. EveryLine' /\ lineOf' = lineOf
  <2>1. lineOf' = lineOf
    BY <1>3 DEF lineOf
  <2> QED
    BY <1>3, <2>1 DEF EveryLine
<1>5. runners' = runners \cup {c} /\ c \notin runners
  BY <1>1, <1>2 DEF runners
<1>6. lineOf[k] # <<>> /\ Head(lineOf[k]) = c
  BY <1>0, <1>1, FirstInLine DEF EveryLine
<1>7. Queue!Grant(k)
  BY <1>4, <1>5, <1>6 DEF Queue!Grant
<1> QED
  BY <1>4, <1>7 DEF Queue!Next

LEMMA ReleaseIsReturn ==
    ASSUME LockTypeOK, RunningIsFirst, EveryLine, LinesAreOne', NEW c \in Calls, ReleaseLock(c)
    PROVE  EveryLine' /\ Queue!Next
<1> USE NoCallAssumption
<1>0. PICK k \in Keys : k = lockKey[c]
  BY DEF LockTypeOK
<1>1. /\ lockState[c] = "running" /\ Active(c) /\ ChainResolved(prev[c])
      /\ lockState' = [lockState EXCEPT ![c] = "released"]
      /\ UNCHANGED <<prev, lockKey>>
      /\ projectChains'[k] = IF projectChains[k] = c THEN NoCall ELSE projectChains[k]
      /\ \A j \in Keys \ {k} : projectChains'[j] = projectChains[j]
  BY <1>0 DEF ReleaseLock, Active, RunningIsFirst, LockTypeOK
<1>2. /\ lockState'[c] = "released" /\ \A d \in Calls \ {c} : lockState'[d] = lockState[d]
      /\ \A d \in Calls : Active(d)' <=> (Active(d) /\ d # c)
      /\ ChainResolved(c)'
  BY <1>1 DEF LockTypeOK, Active, ChainResolved
<1>3. PICK q \in Seq(Calls) : q = lineOf[k] /\ IsLine(k, q)
  BY DEF EveryLine, IsLine
<1>4. q # <<>> /\ Len(q) \in Nat \ {0} /\ q[1] = c /\ Head(q) = c
  BY <1>0, <1>1, <1>3, FirstInLine
<1>5. PICK r \in Seq(Calls) : r = Tail(q)
  BY <1>4, HeadTailProperties
<1>6. /\ Len(r) \in Nat /\ Len(r) = Len(q) - 1
      /\ \A i \in 1 .. Len(r) : i + 1 \in 1 .. Len(q) /\ r[i] = q[i + 1] /\ r[i] \in Calls
      /\ \A i \in 1 .. Len(r) : r[i] # c
  <2>1. Len(r) \in Nat /\ Len(r) = Len(q) - 1 /\ \A i \in 1 .. Len(r) : r[i] = q[i + 1]
    BY <1>4, <1>5, HeadTailProperties, LenProperties
  <2>2. \A i \in 1 .. Len(r) : i + 1 \in 1 .. Len(q) /\ i + 1 # 1 /\ 1 \in 1 .. Len(q)
    BY <1>4, <2>1
  <2>3. \A i \in 1 .. Len(r) : r[i] \in Calls
    BY <1>5, ElementOfSeq
  <2>4. \A i \in 1 .. Len(r) : r[i] # c
    BY <1>3, <1>4, <2>1, <2>2 DEF IsLine
  <2> QED
    BY <2>1, <2>2, <2>3, <2>4
<1>7. IsLine(k, r)'
  <2>1. ASSUME NEW d \in Calls, Active(d)', lockKey'[d] = k
        PROVE  \E i \in 1 .. Len(r) : r[i] = d
    <3>1. d # c /\ Active(d) /\ lockKey[d] = k
      BY <1>1, <1>2, <2>1
    <3>2. PICK i \in 1 .. Len(q) : q[i] = d
      BY <1>3, <3>1 DEF IsLine
    <3>3. i # 1
      BY <1>4, <3>1, <3>2
    <3>4. i - 1 \in 1 .. Len(r) /\ (i - 1) + 1 = i
      BY <1>4, <1>6, <3>2, <3>3
    <3>5. r[i - 1] = d
      BY <1>6, <3>2, <3>4
    <3> QED
      BY <3>4, <3>5
  <2>2. ASSUME NEW i \in 1 .. Len(r)
        PROVE  Active(r[i])' /\ lockKey'[r[i]] = k
    <3>1. Active(r[i]) /\ lockKey[r[i]] = k /\ r[i] \in Calls /\ r[i] # c
      BY <1>3, <1>6 DEF IsLine
    <3> QED
      BY <1>1, <1>2, <3>1
  <2>3. ASSUME NEW i \in 1 .. Len(r), NEW j \in 1 .. Len(r), r[i] = r[j]
        PROVE  i = j
    <3>1. q[i + 1] = q[j + 1] /\ i + 1 \in 1 .. Len(q) /\ j + 1 \in 1 .. Len(q)
      BY <1>6, <2>3
    <3>2. i + 1 = j + 1
      BY <1>3, <3>1 DEF IsLine
    <3> QED
      BY <3>2
  <2>4. ASSUME NEW i \in 1 .. Len(r)
        PROVE  IF i = 1 THEN ChainResolved(prev[r[i]])' ELSE prev'[r[i]] = r[i - 1]
    <3>1. r[i] = q[i + 1] /\ i + 1 \in 1 .. Len(q) /\ i + 1 # 1 /\ (i + 1) - 1 = i
      BY <1>6
    <3>2. prev[r[i]] = q[i]
      <4>1. prev[q[i + 1]] = q[(i + 1) - 1]
        BY <1>3, <3>1 DEF IsLine
      <4> QED
        BY <3>1, <4>1
    <3>3. CASE i = 1
      BY <1>1, <1>2, <1>4, <3>2, <3>3 DEF ChainResolved
    <3>4. CASE i # 1
      <4>1. i - 1 \in 1 .. Len(r) /\ (i - 1) + 1 = i
        BY <1>6, <3>4
      <4>2. r[i - 1] = q[i]
        BY <1>6, <4>1
      <4> QED
        BY <1>1, <3>2, <3>4, <4>2
    <3> QED
      BY <3>3, <3>4
  <2>5. r # <<>> => projectChains'[k] = r[Len(r)]
    <3> SUFFICES ASSUME r # <<>> PROVE projectChains'[k] = r[Len(r)]
      OBVIOUS
    <3>1. Len(r) \in 1 .. Len(r) /\ Len(r) + 1 = Len(q)
      BY <1>4, <1>6, EmptySeq
    <3>2. r[Len(r)] = q[Len(q)] /\ r[Len(r)] # c
      BY <1>6, <3>1
    <3> QED
      BY <1>1, <1>3, <1>4, <3>2 DEF IsLine
  <2>6. r = <<>> => projectChains'[k] = NoCall
    <3> SUFFICES ASSUME r = <<>> PROVE projectChains'[k] = NoCall
      OBVIOUS
    <3>1. Len(q) = 1
      BY <1>4, <1>6, EmptySeq
    <3> QED
      BY <1>1, <1>3, <1>4, <3>1 DEF IsLine
  <2> QED
    BY <2>1, <2>2, <2>3, <2>4, <2>5, <2>6 DEF IsLine
<1>8. lineOf'[k] = r
  BY <1>7 DEF LinesAreOne
<1>9. ASSUME NEW j \in Keys \ {k}
      PROVE  lineOf'[j] = lineOf[j] /\ IsLine(j, lineOf[j])'
  <2>1. PICK p \in Seq(Calls) : p = lineOf[j] /\ IsLine(j, p)
    BY DEF EveryLine, IsLine
  <2>2. IsLine(j, p)'
    BY <1>0, <1>1, <1>2, <2>1, OtherLines
  <2>3. lineOf'[j] = p
    BY <2>2 DEF LinesAreOne
  <2> QED
    BY <2>1, <2>2, <2>3
<1>10. EveryLine'
  <2>1. ASSUME NEW j \in Keys
        PROVE  IsLine(j, lineOf[j])'
    BY <1>7, <1>8, <1>9
  <2> QED
    BY <2>1 DEF EveryLine
<1>11. lineOf' = [lineOf EXCEPT ![k] = Tail(lineOf[k])]
  <2>1. \A j \in Keys : lineOf'[j] = [lineOf EXCEPT ![k] = Tail(lineOf[k])][j]
    BY <1>3, <1>5, <1>8, <1>9 DEF lineOf
  <2> QED
    BY <2>1 DEF lineOf
<1>12. runners' = runners \ {c} /\ c \in runners
  BY <1>1, <1>2 DEF runners
<1>13. Queue!Return(k)
  BY <1>3, <1>4, <1>11, <1>12 DEF Queue!Return
<1> QED
  BY <1>10, <1>13 DEF Queue!Next

LEMMA LineStep ==
    ASSUME LockTypeOK, RunningIsFirst, EveryLine, LinesAreOne', [LockNext]_lockVars
    PROVE  EveryLine' /\ [Queue!Next]_<<lineOf, runners>>
<1>1. CASE UNCHANGED lockVars
  <2>1. lineOf' = lineOf /\ runners' = runners
    BY <1>1 DEF lockVars, lineOf, runners, IsLine, Active, ChainResolved
  <2>2. ASSUME NEW k \in Keys
        PROVE  IsLine(k, lineOf[k])'
    <3>1. PICK q \in Seq(Calls) : q = lineOf[k] /\ IsLine(k, q)
      BY DEF EveryLine, IsLine
    <3>2. IsLine(k, q)'
      BY <1>1, <3>1 DEF lockVars, IsLine, Active, ChainResolved
    <3> QED
      BY <2>1, <3>1, <3>2
  <2> QED
    BY <2>1, <2>2 DEF EveryLine
<1>2. CASE LockNext
  BY <1>2, EnterIsRequest, AcquireIsGrant, ReleaseIsReturn DEF LockNext
<1> QED
  BY <1>1, <1>2

\* withProjectLock serves the calls of a project in the order in which they were made: for any
\* number of calls and projects it implements the FIFO lock (compose.service.ts:62). The line
\* of a project is what hangs on its promise in the map.
THEOREM ServedInOrder == LockSpec => Queue!Spec
<1>1. LockIInv => LockTypeOK /\ RunningIsFirst /\ LinesAreOne
  BY LineIsIt DEF LockIInv
<1>2. LockInit => EveryLine /\ Queue!Init
  BY LinesStart
<1>3. /\ LockTypeOK /\ RunningIsFirst /\ EveryLine /\ LinesAreOne' /\ [LockNext]_lockVars
      => EveryLine' /\ [Queue!Next]_<<lineOf, runners>>
  BY LineStep
<1> QED
  BY <1>1, <1>2, <1>3, LockInvariant, PTL DEF LockSpec, Queue!Spec, Queue!fifoVars
================================================================================
