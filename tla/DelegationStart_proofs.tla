------------------------ MODULE DelegationStart_proofs ------------------------
(***************************************************************************)
(* What the starts of Delegations keep, for any calls, requests, crashes    *)
(* and files that cannot be written: one child is answered for a request,   *)
(* however calls race; and, as long as they do not, an answer names what is *)
(* stored, a start that fails leaves nothing, and the Store opens again,    *)
(* but for what a start leaves whose own cleanup fails.                     *)
(***************************************************************************)
EXTENDS DelegationStart, FiniteSetTheorems, SequenceTheorems, TLAPS

\* The Threads and Delegations in memory, and whatever has a Delegation at all.
T == ToSet(threads)
D == ToSet(delegations)
Entry(c) == c \in D \/ files[c] # None

\* Calls that stored a child Thread, or their Delegation, at some time.
Answers(c) == pc[c] = "answered" => answer[c] = c
Provisioned(c) == pc[c] \notin {"idle", "provision"} /\ Answers(c)
Wrote(c) == pc[c] \notin {"idle", "provision", "delegate", "writing"} /\ Answers(c)

\* Calls that have their Delegation and have not begun to give it up.
Started == {"open", "commit", "execute", "identity", "mark", "marking", "marked"}
Live(c) == pc[c] \in Started \/ answer[c] = c

\* No two of the set have the same request.
Apart(S) == \A c, d \in S : request[c] = request[d] => c = d

-----------------------------------------------------------------------------
(* However calls race. *)

\* What is stored was made by a call that came far enough.
Stored ==
  /\ \A c \in Calls : Entry(c) => Wrote(c)
  /\ \A c \in Calls : c \in T \/ threadFiles[c] # None => Provisioned(c)
  /\ phase # "down" => \A c \in Calls :
       (threadFiles[c] # None => c \in T) /\ (c \in T => threadFiles[c] # None \/ c \in kept)
  /\ phase = "down" => T = {} /\ D = {}

\* A Turn runs for a call that came far enough, and its end is recorded for a
\* Delegation that was written.
TurnsAreOf ==
  \A c \in Calls :
    /\ turn[c] # "none" => Wrote(c) /\ pc[c] \notin {"open", "commit", "execute"}
    /\ turn[c] \in {"checked", "renamed"} => record[c] \in Calls /\ Wrote(record[c])
    /\ pc[c] = "lost" => turn[c] \in {"none", "done"}
    /\ phase = "down" => pc[c] \in Settled /\ turn[c] \in {"none", "done"}

\* A Delegation that is relied on is in memory and on disk, alone of its request.
LiveIsStored ==
  /\ \A c \in Calls : answer[c] = c => pc[c] = "answered"
  /\ \A c \in Calls : Live(c) \/ pc[c] = "cleanup" => files[c] # None /\ (phase = "up" => c \in D)
  /\ \A c, d \in Calls : Live(c) /\ Live(d) /\ request[c] = request[d] => c = d

\* The indexes name what is in memory and, where no request repeats, all of it.
Indexes(i, dels, thrs) ==
  /\ \A q \in Requests : i.requests[q] # None => i.requests[q] \in dels /\ request[i.requests[q]] = q
  /\ \A q \in Requests : i.creates[q] # None => i.creates[q] \in thrs /\ request[i.creates[q]] = q
  /\ i.children \subseteq dels
  /\ Apart(dels) => \A c \in dels : i.requests[request[c]] = c
  /\ Apart(dels) /\ Apart(thrs) => \A c \in thrs : i.creates[request[c]] = c

IndexIsCurrent == phase = "up" => Indexes(index, D, T)

Racing == Stored /\ TurnsAreOf /\ LiveIsStored /\ IndexIsCurrent

-----------------------------------------------------------------------------
(* As long as no calls of one request overlapped and no start failed whose Turn *)
(* had begun.                                                                   *)

Tidy == ~raced /\ \A c \in Calls : turn[c] # "none" => pc[c] # "failed"

\* Delegations and child Threads have different requests; so do the calls under way,
\* and no other call has a Delegation of the request of one of them.
RequestsApart ==
  /\ Apart({c \in Calls : Entry(c)})
  /\ Apart({c \in Calls : c \in T \/ threadFiles[c] # None})
  /\ Apart(Active)
  /\ \A c \in Active, d \in Calls : Entry(d) /\ request[c] = request[d] => c = d

\* On disk is what is in memory, but for starts that give up after their Turn began.
FilesInMemory ==
  phase = "up" => \A c \in Calls :
    files[c] # None => c \in D \/ (pc[c] \in {"forget", "drop"} /\ turn[c] # "none")

\* A call that was given the record of another was given that of a call a crash has
\* ended, or that could not remove it, and that has no Delegation; ends of Turns are
\* recorded for the call itself.
Abandoned(c) == pc[c] = "lost" \/ (pc[c] = "failed" /\ c \in kept)
RecordsAreOwn ==
  /\ \A c \in Calls : record[c] \notin {None, c} => Abandoned(record[c]) /\ ~Entry(record[c])
  /\ \A c \in Calls : turn[c] \in {"checked", "renamed"} => record[c] = c

\* A start that fails gives up its Delegation, then its Thread, if it can.
GivenUp ==
  \A c \in Calls : turn[c] = "none" =>
    /\ pc[c] = "forget" => files[c] = None
    /\ pc[c] \in {"drop", "failed"} => ~Entry(c) \/ c \in kept
    /\ pc[c] = "failed" => (c \notin T /\ threadFiles[c] = None) \/ c \in kept

\* Before the first crash the answer is a call that has its own Delegation and Thread,
\* unless one of that request could not be taken back.
AnswersAreStored ==
  crashes = 0 =>
    /\ phase = "up"
    /\ \A c \in Calls : pc[c] # "lost"
    /\ \A c \in Calls :
         pc[c] \in Labels \ {"provision"} \/ answer[c] = c => c \in T \/ Soiled(request[c])
    /\ \A c \in Calls : pc[c] = "answered" =>
         /\ answer[c] \in Calls /\ request[answer[c]] = request[c]
         /\ answer[answer[c]] = answer[c] \/ Soiled(request[c])

Unraced ==
  RequestsApart /\ FilesInMemory /\ RecordsAreOwn /\ GivenUp /\ AnswersAreStored /\ StoreReopens

IInv == TypeOK /\ Racing /\ (Tidy => Unraced)

-----------------------------------------------------------------------------
(* The Maps of the Store as sequences. *)

LEMMA SetOfSequence ==
  ASSUME NEW s \in Seq(Calls)
  PROVE  /\ DOMAIN s = 1..Len(s) /\ Len(s) \in Nat
         /\ ToSet(s) \subseteq Calls
         /\ \A i \in DOMAIN s : s[i] \in ToSet(s)
         /\ \A c \in ToSet(s) : \E i \in DOMAIN s : s[i] = c
  BY DEF ToSet

\* A new key comes last.
LEMMA AppendKey ==
  ASSUME NEW s \in Seq(Calls), IsInjective(s), NEW c \in Calls, c \notin ToSet(s)
  PROVE  /\ Append(s, c) \in Seq(Calls) /\ IsInjective(Append(s, c))
         /\ ToSet(Append(s, c)) = ToSet(s) \cup {c}
<1>1. /\ DOMAIN s = 1..Len(s) /\ Len(s) \in Nat
      /\ Append(s, c) \in Seq(Calls) /\ Len(Append(s, c)) = Len(s) + 1
      /\ \A i \in 1..Len(s) : Append(s, c)[i] = s[i]
      /\ Append(s, c)[Len(s) + 1] = c
  BY AppendProperties
<1>2. DOMAIN Append(s, c) = 1..(Len(s) + 1)
  BY <1>1
<1>3. IsInjective(Append(s, c))
  BY <1>1, <1>2 DEF IsInjective, ToSet
<1>4. ToSet(Append(s, c)) = ToSet(s) \cup {c}
  BY <1>1, <1>2 DEF ToSet
<1> QED BY <1>1, <1>3, <1>4

LEMMA PutKey ==
  ASSUME NEW s \in Seq(Calls), IsInjective(s), NEW c \in Calls
  PROVE  /\ Put(s, c) \in Seq(Calls) /\ IsInjective(Put(s, c))
         /\ ToSet(Put(s, c)) = ToSet(s) \cup {c}
<1>1. CASE c \in ToSet(s)
  BY <1>1 DEF Put
<1>2. CASE c \notin ToSet(s)
  BY <1>2, AppendKey DEF Put
<1> QED BY <1>1, <1>2

\* The sequence without its element at i.
LEMMA SuffixAfter ==
  ASSUME NEW S, NEW s \in Seq(S), NEW i \in 1..Len(s)
  PROVE  /\ SubSeq(s, i + 1, Len(s)) \in Seq(S)
         /\ Len(SubSeq(s, i + 1, Len(s))) = Len(s) - i
         /\ \A j \in 1..(Len(s) - i) : SubSeq(s, i + 1, Len(s))[j] = s[i + j]
<1>1. Len(s) \in Nat /\ i \in Int /\ i + 1 \in Int /\ \A j \in (i + 1)..Len(s) : s[j] \in S
  OBVIOUS
<1>2. DEFINE q == [j \in 1..(Len(s) - i) |-> s[i + j]]
<1>3. SubSeq(s, i + 1, Len(s)) = [j \in 1..(Len(s) - (i + 1) + 1) |-> s[(i + 1) + j - 1]]
  BY <1>1, SMT
<1>4. q = SubSeq(s, i + 1, Len(s))
  BY <1>1, <1>3
<1>5. q \in Seq(S) /\ Len(q) = Len(s) - i
  BY <1>1
<1> QED BY <1>1, <1>4, <1>5

\* A key that is deleted leaves the others.
LEMMA RemoveKey ==
  ASSUME NEW s \in Seq(Calls), IsInjective(s), NEW c \in Calls
  PROVE  /\ RemoveFirst(s, c) \in Seq(Calls) /\ IsInjective(RemoveFirst(s, c))
         /\ ToSet(RemoveFirst(s, c)) = ToSet(s) \ {c}
<1>0. DOMAIN s = 1..Len(s) /\ Len(s) \in Nat
  OBVIOUS
<1>1. CASE c \notin ToSet(s)
  <2>1. RemoveFirst(s, c) = s
    BY <1>0, <1>1 DEF RemoveFirst, ToSet
  <2> QED BY <1>1, <2>1
<1>2. CASE c \in ToSet(s)
  <2> DEFINE t == RemoveFirst(s, c)
  <2>1. PICK i \in 1..Len(s) : s[i] = c
    BY <1>0, <1>2 DEF ToSet
  <2>2. {j \in 1..Len(s) : s[j] = c} = {i}
    BY <1>0, <2>1 DEF IsInjective
  <2>3. Min({i}) = i
    BY <2>1 DEF Min
  <2>4. SelectInSeq(s, LAMBDA v : v = c) = i
    BY <2>2, <2>3 DEF SelectInSeq
  <2>5. t = SubSeq(s, 1, i - 1) \o SubSeq(s, i + 1, Len(s))
    BY <2>1, <2>4 DEF RemoveFirst, RemoveAt
  <2> HIDE DEF t
  <2>6. /\ t \in Seq(Calls) /\ Len(t) = Len(s) - 1
        /\ \A j \in 1..(Len(s) - 1) : t[j] = s[IF j < i THEN j ELSE j + 1]
    <3> DEFINE before == SubSeq(s, 1, i - 1)
               after == SubSeq(s, i + 1, Len(s))
    <3>1. /\ before \in Seq(Calls) /\ Len(before) = i - 1
          /\ \A j \in 1..(i - 1) : before[j] = s[j]
      <4>1. i - 1 \in Int /\ 1 \in Int /\ \A j \in 1..(i - 1) : s[j] \in Calls
        BY <1>0, <2>1
      <4> QED BY <2>1, <4>1, SubSeqProperties
    <3>2. /\ after \in Seq(Calls) /\ Len(after) = Len(s) - i
          /\ \A j \in 1..(Len(s) - i) : after[j] = s[i + j]
      BY <2>1, SuffixAfter
    <3>3. t = before \o after
      BY <2>5
    <3> HIDE DEF before, after
    <3>4. /\ t \in Seq(Calls) /\ Len(t) = Len(before) + Len(after)
          /\ \A j \in 1..Len(before) + Len(after) :
               t[j] = IF j <= Len(before) THEN before[j] ELSE after[j - Len(before)]
      <4>1. /\ before \o after \in Seq(Calls) /\ Len(before \o after) = Len(before) + Len(after)
            /\ \A j \in 1..Len(before) + Len(after) :
                 (before \o after)[j] = IF j <= Len(before) THEN before[j] ELSE after[j - Len(before)]
        BY <3>1, <3>2, ConcatProperties
      <4> QED BY <3>3, <4>1, Zenon
    <3>5. Len(before) + Len(after) = Len(s) - 1
      BY <1>0, <2>1, <3>1, <3>2
    <3>6. ASSUME NEW j \in 1..(Len(s) - 1) PROVE t[j] = s[IF j < i THEN j ELSE j + 1]
      <4>1. t[j] = IF j <= i - 1 THEN before[j] ELSE after[j - (i - 1)]
        BY <3>1, <3>4, <3>5
      <4>2. CASE j < i
        BY <2>1, <3>1, <4>1, <4>2
      <4>3. CASE ~(j < i)
        <5>1. t[j] = after[j - (i - 1)] /\ j - (i - 1) \in 1..(Len(s) - i) /\ i + (j - (i - 1)) = j + 1
          BY <1>0, <2>1, <4>1, <4>3
        <5> QED BY <3>2, <4>3, <5>1
      <4> QED BY <4>2, <4>3
    <3> QED BY <3>4, <3>5, <3>6
  <2>7. DOMAIN t = 1..(Len(s) - 1)
    BY <2>6
  <2>8. IsInjective(t)
    <3>1. ASSUME NEW a \in DOMAIN t, NEW b \in DOMAIN t, t[a] = t[b] PROVE a = b
      <4>1. (IF a < i THEN a ELSE a + 1) \in DOMAIN s /\ (IF b < i THEN b ELSE b + 1) \in DOMAIN s
        BY <1>0, <2>1, <2>7
      <4>2. (IF a < i THEN a ELSE a + 1) = (IF b < i THEN b ELSE b + 1)
        BY <2>6, <2>7, <3>1, <4>1 DEF IsInjective
      <4> QED BY <2>1, <2>7, <4>2
    <3> QED BY <3>1 DEF IsInjective
  <2>9. ToSet(t) = ToSet(s) \ {c}
    <3>1. ASSUME NEW d \in ToSet(t) PROVE d \in ToSet(s) \ {c}
      <4>1. PICK j \in DOMAIN t : t[j] = d
        BY <3>1 DEF ToSet
      <4> DEFINE m == IF j < i THEN j ELSE j + 1
      <4>2. m \in DOMAIN s /\ s[m] = d /\ m # i
        BY <1>0, <2>1, <2>6, <2>7, <4>1
      <4> HIDE DEF m
      <4>3. s[m] # s[i]
        BY <2>1, <4>2 DEF IsInjective
      <4> QED BY <2>1, <4>2, <4>3 DEF ToSet
    <3>2. ASSUME NEW d \in ToSet(s) \ {c} PROVE d \in ToSet(t)
      <4>1. PICK j \in 1..Len(s) : s[j] = d
        BY <1>0 DEF ToSet
      <4>2. j # i
        BY <2>1, <3>2, <4>1
      <4>3. t[IF j < i THEN j ELSE j - 1] = d /\ (IF j < i THEN j ELSE j - 1) \in DOMAIN t
        BY <1>0, <2>1, <2>6, <2>7, <4>1, <4>2
      <4> QED BY <4>3 DEF ToSet
    <3> QED BY <3>1, <3>2
  <2> QED BY <2>6, <2>8, <2>9 DEF t
<1> QED BY <1>1, <1>2

\* Reading a directory, in whatever order, gives each of its files once.
LEMMA ListOfSet ==
  ASSUME NEW S \in SUBSET Calls, NEW s \in SetToSeqs(S)
  PROVE  s \in Seq(Calls) /\ IsInjective(s) /\ ToSet(s) = S
<1>1. IsFiniteSet(S)
  BY DelegationAssumption, FS_Subset
<1>2. Cardinality(S) \in Nat
  BY <1>1, FS_CardinalityType
<1>3. s \in [1..Cardinality(S) -> S] /\ \A i, j \in 1..Cardinality(S) : i # j => s[i] # s[j]
  BY DEF SetToSeqs
<1>4. s \in Seq(Calls) /\ IsInjective(s)
  BY <1>2, <1>3 DEF IsInjective
<1>5. IsFiniteSet(1..Cardinality(S)) /\ Cardinality(1..Cardinality(S)) = Cardinality(S)
  BY <1>2, FS_Interval
<1>6. s \in Injection(1..Cardinality(S), S)
  BY <1>3, <1>4 DEF Injection
<1>7. s \in Surjection(1..Cardinality(S), S)
  BY <1>1, <1>5, <1>6, FS_Injection
<1>8. ToSet(s) = S
  BY <1>3, <1>7 DEF Surjection, ToSet
<1> QED BY <1>4, <1>8

-----------------------------------------------------------------------------
(* #rebuildIndexes *)

\* It throws exactly when two entries have one request.
LEMMA RepeatsAreSeen ==
  ASSUME NEW s \in Seq(Calls), IsInjective(s)
  PROVE  Repeating(s) = {} <=> Apart(ToSet(s))
<1>0. DOMAIN s = 1..Len(s) /\ Len(s) \in Nat
  OBVIOUS
<1>1. ASSUME Repeating(s) = {}, NEW i \in DOMAIN s, NEW j \in DOMAIN s, request[s[i]] = request[s[j]]
      PROVE  i = j
  <2>1. ASSUME NEW a \in DOMAIN s, NEW b \in DOMAIN s, request[s[a]] = request[s[b]] PROVE ~(a < b)
    BY <1>0, <1>1, <2>1 DEF Repeating
  <2> QED BY <1>0, <1>1, <2>1
<1>2. ASSUME Apart(ToSet(s)) PROVE Repeating(s) = {}
  BY <1>0, <1>2 DEF Apart, ToSet, Repeating, IsInjective
<1>3. ASSUME Repeating(s) = {} PROVE Apart(ToSet(s))
  BY <1>1, <1>3 DEF Apart, ToSet
<1> QED BY <1>2, <1>3

LEMMA RebuiltIndexes ==
  ASSUME NEW dels \in Seq(Calls), IsInjective(dels), NEW thrs \in Seq(Calls), IsInjective(thrs),
         request \in [Calls -> Requests]
  PROVE  /\ Throws(dels, thrs) <=> ~(Apart(ToSet(dels)) /\ Apart(ToSet(thrs)))
         /\ Indexes(Rebuilt(dels, thrs), ToSet(dels), ToSet(thrs))
         /\ Rebuilt(dels, thrs) \in [requests : [Requests -> Calls \cup {None}], children : SUBSET Calls,
                                     creates : [Requests -> Calls \cup {None}]]
<1>1. Throws(dels, thrs) <=> ~(Apart(ToSet(dels)) /\ Apart(ToSet(thrs)))
  BY RepeatsAreSeen DEF Throws
<1>2. ASSUME NEW s \in Seq(Calls), IsInjective(s)
      PROVE  /\ Indexed(s) \subseteq ToSet(s)
             /\ Apart(ToSet(s)) => Indexed(s) = ToSet(s)
  <2>1. Indexed(s) \subseteq ToSet(s)
    BY DEF Indexed, ToSet
  <2>2. ASSUME Apart(ToSet(s)) PROVE Indexed(s) = ToSet(s)
    BY <1>2, <2>2, RepeatsAreSeen DEF Indexed, ToSet
  <2> QED BY <2>1, <2>2
<1>3. ASSUME NEW S \in SUBSET Calls, NEW q \in Requests
      PROVE  /\ ByRequest(S)[q] \in Calls \cup {None}
             /\ ByRequest(S)[q] # None => ByRequest(S)[q] \in S /\ request[ByRequest(S)[q]] = q
             /\ ByRequest(S)[q] = None => \A c \in S : request[c] # q
  BY DelegationAssumption DEF ByRequest
<1>4. ToSet(dels) \subseteq Calls /\ ToSet(thrs) \subseteq Calls
  BY SetOfSequence
<1> DEFINE i == Rebuilt(dels, thrs)
           creating == IF Repeating(dels) = {} THEN Indexed(thrs) ELSE {}
<1>5. /\ i.requests = ByRequest(Indexed(dels)) /\ i.creates = ByRequest(creating)
      /\ i.children = {dels[k] : k \in {n \in DOMAIN dels : \A r \in Repeating(dels) : n <= r}}
      /\ i = [requests |-> i.requests, children |-> i.children, creates |-> i.creates]
  BY DEF Rebuilt
<1>6. Indexed(dels) \subseteq ToSet(dels) /\ creating \subseteq ToSet(thrs)
  BY <1>2
<1>7. i.children \subseteq ToSet(dels)
  BY <1>5 DEF ToSet
<1>8. Apart(ToSet(dels)) => Indexed(dels) = ToSet(dels)
  BY <1>2
<1>9. Apart(ToSet(dels)) /\ Apart(ToSet(thrs)) => creating = ToSet(thrs)
  BY <1>2, RepeatsAreSeen
<1> HIDE DEF i, creating
<1>10. \A q \in Requests : i.requests[q] # None =>
         i.requests[q] \in ToSet(dels) /\ request[i.requests[q]] = q
  BY <1>3, <1>4, <1>5, <1>6
<1>11. \A q \in Requests : i.creates[q] # None =>
         i.creates[q] \in ToSet(thrs) /\ request[i.creates[q]] = q
  BY <1>3, <1>4, <1>5, <1>6
<1>12. ASSUME Apart(ToSet(dels)), NEW c \in ToSet(dels) PROVE i.requests[request[c]] = c
  <2>1. request[c] \in Requests
    BY <1>4
  <2>2. i.requests[request[c]] # None
    BY <1>3, <1>4, <1>5, <1>8, <1>12, <2>1
  <2> QED BY <1>10, <1>12, <2>1, <2>2 DEF Apart
<1>13. ASSUME Apart(ToSet(dels)), Apart(ToSet(thrs)), NEW c \in ToSet(thrs)
       PROVE  i.creates[request[c]] = c
  <2>1. request[c] \in Requests
    BY <1>4
  <2>2. i.creates[request[c]] # None
    BY <1>3, <1>4, <1>5, <1>9, <1>13, <2>1
  <2> QED BY <1>11, <1>13, <2>1, <2>2 DEF Apart
<1>14. Indexes(i, ToSet(dels), ToSet(thrs))
  BY <1>7, <1>10, <1>11, <1>12, <1>13 DEF Indexes
<1>15. i \in [requests : [Requests -> Calls \cup {None}], children : SUBSET Calls,
             creates : [Requests -> Calls \cup {None}]]
  <2>1. i.requests \in [Requests -> Calls \cup {None}]
    <3>1. i.requests = [q \in Requests |-> i.requests[q]]
      BY <1>5 DEF ByRequest
    <3> QED BY <1>3, <1>4, <1>5, <1>6, <3>1
  <2>2. i.creates \in [Requests -> Calls \cup {None}]
    <3>1. i.creates = [q \in Requests |-> i.creates[q]]
      BY <1>5 DEF ByRequest
    <3> QED BY <1>3, <1>4, <1>5, <1>6, <3>1
  <2>3. i.children \subseteq Calls
    BY <1>4, <1>7
  <2> QED BY <1>5, <2>1, <2>2, <2>3
<1> QED BY <1>1, <1>14, <1>15 DEF i

-----------------------------------------------------------------------------
(* What each action does to the invariant. *)

\* The steps of a start that add no entry to the Store and take none away.
Moves ==
  {<<"delegate", "writing">>, <<"delegate", "drop">>, <<"writing", "drop">>,
   <<"open", "commit">>, <<"open", "execute">>, <<"open", "cleanup">>,
   <<"commit", "execute">>, <<"commit", "cleanup">>,
   <<"execute", "identity">>, <<"execute", "cleanup">>,
   <<"identity", "identity">>, <<"identity", "mark">>, <<"identity", "cleanup">>,
   <<"mark", "marking">>, <<"mark", "answered">>, <<"mark", "cleanup">>,
   <<"marking", "marked">>, <<"marking", "cleanup">>, <<"marked", "answered">>, <<"marked", "cleanup">>,
   <<"cleanup", "drop">>}

Moved(c) ==
  /\ phase = "up" /\ phase' = "up" /\ <<pc[c], pc'[c]>> \in Moves
  /\ \A d \in Calls \ {c} : pc'[d] = pc[d] /\ turn'[d] = turn[d] /\ answer'[d] = answer[d]
  /\ turn'[c] = turn[c] \/ (pc[c] = "execute" /\ pc'[c] = "identity" /\ turn'[c] = "running")
  /\ answer'[c] = IF pc'[c] = "answered" THEN c ELSE answer[c]
  /\ \A d \in Calls : files'[d] = None <=> files[d] = None
  /\ \A d \in Calls : (threadFiles[d] # None => threadFiles'[d] # None)
                       /\ (threadFiles'[d] # None => threadFiles[d] # None \/ d \in T)
  /\ kept \subseteq kept' /\ (pc[c] = "cleanup" => c \in kept') /\ (pc[c] # "cleanup" => kept' = kept)
  /\ kept' \subseteq kept \cup {c}
  /\ UNCHANGED <<T, D, request, record, raced, crashes>>

LEMMA MoveKeeps ==
  ASSUME IInv, NEW c \in Calls, Moved(c), TypeOK', IndexIsCurrent'
  PROVE  IInv'
<1> HIDE DEF T, D
<1>1. /\ phase = "up" /\ phase' = "up" /\ pc[c] \in Labels /\ T' = T /\ D' = D
      /\ \A d \in Calls \ {c} : pc'[d] = pc[d] /\ turn'[d] = turn[d] /\ answer'[d] = answer[d]
      /\ \A d \in Calls : files'[d] = None <=> files[d] = None
      /\ \A d \in Calls : (threadFiles[d] # None => threadFiles'[d] # None)
                           /\ (threadFiles'[d] # None => threadFiles[d] # None \/ d \in T)
      /\ kept \subseteq kept' /\ kept' \subseteq kept \cup {c}
      /\ UNCHANGED <<request, record, raced, crashes>>
      /\ pc'[c] \in (Labels \ {"provision", "delegate", "open", "forget"}) \cup {"answered"}
      /\ pc'[c] = "writing" => pc[c] = "delegate"
      /\ pc'[c] \in Started \cup {"answered"} => pc[c] \in Started
      /\ pc'[c] = "cleanup" => pc[c] \in Started
      /\ pc'[c] = "drop" => pc[c] \in {"delegate", "writing"} \/ c \in kept'
      /\ pc[c] \notin {"forget", "drop"}
      /\ pc[c] \in {"delegate", "writing"} => pc'[c] \in {"writing", "drop"}
      /\ pc'[c] \in {"commit", "execute"} => pc[c] \in {"open", "commit"}
      /\ pc[c] # "provision"
      /\ turn'[c] = turn[c] \/ (turn'[c] = "running" /\ pc'[c] = "identity" /\ pc[c] = "execute")
      /\ IF pc'[c] = "answered" THEN answer'[c] = c ELSE answer'[c] = answer[c]
  BY DEF Moved, Moves, Labels, Started
<1>2. Active' = Active \ {d \in {c} : pc'[c] = "answered"}
  BY <1>1 DEF Active, Settled, Labels
<1>3. Tidy' => Tidy
  BY <1>1 DEF Tidy, Labels
<1>4. Stored'
  BY <1>1, <1>2 DEF IInv, Racing, Stored, Entry, Wrote, Provisioned, Answers, store, Labels
<1>5. TurnsAreOf'
  <2>1. \A d \in Calls : Wrote(d) => Wrote(d)'
    BY <1>1 DEF Wrote, Answers, Labels
  <2>2. turn[c] # "none" => pc[c] \notin {"delegate", "writing", "open", "commit", "execute"}
    BY <1>1 DEF IInv, Racing, TurnsAreOf, Wrote
  <2>3. Wrote(c)' \/ pc'[c] = "writing"
    BY <1>1 DEF Wrote, Answers, Labels
  <2>4. turn'[c] # "none" => Wrote(c)' /\ pc'[c] \notin {"open", "commit", "execute"}
    BY <1>1, <2>2, <2>3
  <2> QED BY <1>1, <2>1, <2>4 DEF IInv, Racing, TurnsAreOf, Labels
<1>6. LiveIsStored'
  <2>1. answer[c] # c
    BY <1>1 DEF IInv, Racing, LiveIsStored, Labels
  <2>2. /\ \A d \in Calls : Live(d)' => Live(d)
        /\ \A d \in Calls : Live(d)' \/ pc'[d] = "cleanup" => Live(d) \/ pc[d] = "cleanup"
    BY <1>1, <2>1 DEF Live
  <2>3. \A d \in Calls : answer'[d] = d => pc'[d] = "answered"
    BY <1>1, <2>1 DEF IInv, Racing, LiveIsStored
  <2> QED BY <1>1, <1>2, <2>2, <2>3 DEF IInv, Racing, LiveIsStored, store
<1>7. ASSUME Tidy' PROVE Unraced'
  <2>1. RequestsApart'
    BY <1>1, <1>2, <1>3, <1>7 DEF IInv, Unraced, RequestsApart, Apart, Entry, store
  <2>2. FilesInMemory'
    BY <1>1, <1>2, <1>3, <1>7 DEF IInv, Unraced, FilesInMemory, store, Racing, LiveIsStored, Live
  <2>3. RecordsAreOwn'
    BY <1>1, <1>2, <1>3, <1>7 DEF IInv, Unraced, RecordsAreOwn, Abandoned, store, Entry, Labels, TypeOK
  <2>4. GivenUp'
    BY <1>1, <1>2, <1>3, <1>7 DEF IInv, Unraced, GivenUp, store, Racing, Stored, Wrote, Entry, Labels
  <2>5. AnswersAreStored'
    BY <1>1, <1>2, <1>3, <1>7 DEF IInv, Unraced, AnswersAreStored, Soiled, store, Labels, Started
  <2> QED BY <1>1, <2>1, <2>2, <2>3, <2>4, <2>5 DEF Unraced, StoreReopens
<1> QED BY <1>3, <1>4, <1>5, <1>6, <1>7 DEF IInv, Racing

\* The index stays what it is when nothing it names changes.
LEMMA SameIndex ==
  ASSUME IInv, UNCHANGED <<index, T, D, request, phase>>
  PROVE  IndexIsCurrent'
<1> HIDE DEF T, D
<1> QED BY DEF IInv, Racing, IndexIsCurrent, Indexes, Apart

LEMMA DelegateKeeps == ASSUME IInv, NEW c \in Calls, Delegate(c) PROVE IInv'
<1>1. TypeOK'
  BY DEF Delegate, Step, Goto, IInv, TypeOK, store, Labels, InMemory
<1>2. UNCHANGED <<T, D, index>>
  BY DEF Delegate, store, T, D
<1>3. Moved(c)
  BY <1>2 DEF Delegate, Step, Goto, IInv, TypeOK, store, Moved, Moves
<1>4. UNCHANGED <<request, phase>>
  BY DEF Delegate
<1> QED BY <1>1, <1>2, <1>3, <1>4, MoveKeeps, SameIndex

LEMMA OpenKeeps == ASSUME IInv, NEW c \in Calls, Open(c) PROVE IInv'
<1>1. TypeOK'
  BY DEF Open, Step, Goto, IInv, TypeOK, store, Labels, InMemory
<1>2. UNCHANGED <<T, D, index>>
  BY DEF Open, store, T, D
<1>3. Moved(c)
  BY <1>2 DEF Open, Step, Goto, IInv, TypeOK, store, Moved, Moves
<1>4. UNCHANGED <<request, phase>>
  BY DEF Open
<1> QED BY <1>1, <1>2, <1>3, <1>4, MoveKeeps, SameIndex

LEMMA StartTurnKeeps == ASSUME IInv, NEW c \in Calls, StartTurn(c) PROVE IInv'
<1>1. TypeOK'
  BY DEF StartTurn, Step, Goto, IInv, TypeOK, store, Labels, InMemory
<1>2. UNCHANGED <<T, D, index>>
  BY DEF StartTurn, store, T, D
<1>3. Moved(c)
  BY <1>2 DEF StartTurn, Step, Goto, IInv, TypeOK, store, Moved, Moves
<1>4. UNCHANGED <<request, phase>>
  BY DEF StartTurn
<1> QED BY <1>1, <1>2, <1>3, <1>4, MoveKeeps, SameIndex

LEMMA AwaitIdentityKeeps == ASSUME IInv, NEW c \in Calls, AwaitIdentity(c) PROVE IInv'
<1>1. TypeOK'
  BY DEF AwaitIdentity, Step, Goto, IInv, TypeOK, store, Labels, InMemory
<1>2. UNCHANGED <<T, D, index>>
  BY DEF AwaitIdentity, store, T, D
<1>3. Moved(c)
  BY <1>2 DEF AwaitIdentity, Step, Goto, IInv, TypeOK, store, Moved, Moves
<1>4. UNCHANGED <<request, phase>>
  BY DEF AwaitIdentity
<1> QED BY <1>1, <1>2, <1>3, <1>4, MoveKeeps, SameIndex

LEMMA CheckRunningKeeps == ASSUME IInv, NEW c \in Calls, CheckRunning(c) PROVE IInv'
<1>1. TypeOK'
  <2>1. pc' \in [Calls -> Settled \cup Labels] /\ answer' \in [Calls -> Calls \cup {None}]
    BY DEF CheckRunning, Step, Goto, IInv, TypeOK, Labels, Settled
  <2>2. UNCHANGED <<phase, store, request, record, made, turn, raced, kept, crashes, ioErrors>>
    BY DEF CheckRunning
  <2> QED BY <2>1, <2>2 DEF IInv, TypeOK, store, InMemory
<1>2. UNCHANGED <<T, D, index>>
  BY DEF CheckRunning, store, T, D
<1>3. Moved(c)
  BY <1>2 DEF CheckRunning, Step, Goto, IInv, TypeOK, store, Moved, Moves
<1>4. UNCHANGED <<request, phase>>
  BY DEF CheckRunning
<1> QED BY <1>1, <1>2, <1>3, <1>4, MoveKeeps, SameIndex

LEMMA FailWriteKeeps == ASSUME IInv, NEW c \in Calls, FailWrite(c) PROVE IInv'
<1>1. TypeOK'
  <2>1. pc' \in [Calls -> Settled \cup Labels]
    BY DEF FailWrite, Step, Goto, IInv, TypeOK, Labels, Settled
  <2>2. ioErrors' \in 0..MaxIoErrors
    BY DelegationAssumption DEF FailWrite, IoError, IInv, TypeOK
  <2>3. UNCHANGED <<phase, store, request, record, made, turn, answer, raced, kept, crashes>>
    BY DEF FailWrite
  <2> QED BY <2>1, <2>2, <2>3 DEF IInv, TypeOK, store, InMemory
<1>2. UNCHANGED <<T, D, index>>
  BY DEF FailWrite, store, T, D
<1>3. UNCHANGED <<request, phase>>
  BY DEF FailWrite, Step
<1>4. IndexIsCurrent'
  BY <1>2, <1>3, SameIndex
<1>5. CASE pc[c] = "provision"
  <2>1. /\ phase = "up" /\ phase' = "up" /\ pc'[c] = "failed" /\ \A d \in Calls \ {c} : pc'[d] = pc[d]
        /\ UNCHANGED <<files, threadFiles, record, turn, answer, raced, kept, crashes>>
    BY <1>5 DEF FailWrite, Step, Goto, IInv, TypeOK, store
  <2> HIDE DEF T, D
  <2>2. /\ ~Entry(c) /\ c \notin T /\ threadFiles[c] = None /\ turn[c] = "none" /\ answer[c] # c
        /\ \A d \in Calls : record[d] = c => turn[d] \notin {"checked", "renamed"}
    BY <1>5 DEF IInv, Racing, Stored, TurnsAreOf, LiveIsStored, Wrote, Provisioned
  <2>3. Stored'
    BY <1>2, <2>1, <2>2 DEF IInv, Racing, Stored, Entry, Wrote, Provisioned, Answers
  <2>4. TurnsAreOf'
    BY <2>1, <2>2, <1>1 DEF IInv, Racing, TurnsAreOf, Wrote, Answers, Settled, TypeOK
  <2>5. LiveIsStored'
    BY <1>2, <1>3, <2>1, <2>2 DEF IInv, Racing, LiveIsStored, Live, Started
  <2>6. ASSUME Tidy' PROVE Unraced'
    <3>1. Unraced
      BY <1>5, <2>1, <2>2, <2>6 DEF IInv, Tidy
    <3>2. Active' = Active \ {c}
      BY <2>1 DEF Active, Settled
    <3>3. RequestsApart' /\ FilesInMemory'
      BY <1>2, <1>3, <1>5, <2>1, <3>1, <3>2 DEF Unraced, RequestsApart, FilesInMemory, Apart, Entry
    <3>4. RecordsAreOwn'
      BY <1>2, <1>5, <2>1, <3>1 DEF Unraced, RecordsAreOwn, Abandoned, Entry, IInv, TypeOK
    <3>5. GivenUp'
      BY <1>2, <2>1, <2>2, <3>1 DEF Unraced, GivenUp, Entry
    <3>6. AnswersAreStored'
      BY <1>2, <1>3, <2>1, <2>2, <3>1 DEF Unraced, AnswersAreStored, Soiled, Labels
    <3> QED BY <2>1, <3>1, <3>3, <3>4, <3>5, <3>6 DEF Unraced, StoreReopens
  <2> QED BY <1>1, <1>4, <2>3, <2>4, <2>5, <2>6 DEF IInv, Racing
<1>6. CASE pc[c] # "provision"
  <2>1. Moved(c)
    BY <1>2, <1>6 DEF FailWrite, Step, Goto, IInv, TypeOK, store, Moved, Moves
  <2> QED BY <1>1, <1>4, <2>1, MoveKeeps
<1> QED BY <1>5, <1>6

LEMMA FailRemoveDelegationKeeps ==
  ASSUME IInv, NEW c \in Calls, FailRemoveDelegation(c) PROVE IInv'
<1>1. TypeOK'
  BY DelegationAssumption DEF FailRemoveDelegation, IoError, Step, Goto, IInv, TypeOK, store, Labels, InMemory
<1>2. UNCHANGED <<T, D, index>>
  BY DEF FailRemoveDelegation, store, T, D
<1>3. Moved(c)
  BY <1>2 DEF FailRemoveDelegation, Step, Goto, IInv, TypeOK, store, Moved, Moves
<1>4. UNCHANGED <<request, phase>>
  BY DEF FailRemoveDelegation
<1> QED BY <1>1, <1>2, <1>3, <1>4, MoveKeeps, SameIndex

\* The record is committed, if it is still there.
LEMMA CommitRecordKeeps ==
  ASSUME IInv, NEW c \in Calls, CommitRecord(c), phase = "up", UNCHANGED <<phase, request>>
  PROVE  /\ UNCHANGED <<T, D, delegations, status, files>>
         /\ \A d \in Calls : (threadFiles[d] # None => threadFiles'[d] # None)
                              /\ (threadFiles'[d] # None => threadFiles[d] # None \/ d \in T)
         /\ threads' \in Seq(Calls) /\ IsInjective(threads') /\ ready' \subseteq ToSet(threads')
         /\ threadFiles' \in [Calls -> {"creating", "ready", None}]
         /\ index' \in [requests : [Requests -> Calls \cup {None}], children : SUBSET Calls,
                        creates : [Requests -> Calls \cup {None}]]
         /\ IndexIsCurrent'
<1>1. /\ threads \in Seq(Calls) /\ IsInjective(threads) /\ request \in [Calls -> Requests]
      /\ delegations \in Seq(Calls) /\ IsInjective(delegations) /\ ready \subseteq ToSet(threads)
      /\ threadFiles \in [Calls -> {"creating", "ready", None}]
  BY DEF IInv, TypeOK
<1>2. CASE record[c] \in ToSet(threads)
  <2>1. UNCHANGED <<threads, delegations, status, files, T, D>>
    BY <1>2 DEF CommitRecord, T, D
  <2>2. record[c] \in Calls /\ "ready" # None
    BY <1>1, <1>2, SetOfSequence, DelegationAssumption
  <2>3. record[c] \in T
    BY <1>2 DEF T
  <2>4. threadFiles' = [threadFiles EXCEPT ![record[c]] = "ready"] /\ ready' = ready \cup {record[c]}
        /\ index' = Rebuilt(delegations, threads) /\ UNCHANGED <<delegations, threads>>
    BY <1>2 DEF CommitRecord
  <2>5. \A d \in Calls : (threadFiles[d] # None => threadFiles'[d] # None)
                          /\ (threadFiles'[d] # None => threadFiles[d] # None \/ d \in T)
    BY <1>1, <2>2, <2>3, <2>4
  <2>6. /\ Indexes(index', ToSet(delegations), ToSet(threads))
        /\ index' \in [requests : [Requests -> Calls \cup {None}], children : SUBSET Calls,
                       creates : [Requests -> Calls \cup {None}]]
    BY <1>1, <2>4, RebuiltIndexes
  <2>7. IndexIsCurrent'
    BY <2>4, <2>6 DEF IndexIsCurrent, Indexes, Apart, T, D
  <2>8. threadFiles' \in [Calls -> {"creating", "ready", None}] /\ ready' \subseteq ToSet(threads')
    BY <1>1, <1>2, <2>4
  <2> QED BY <1>1, <2>1, <2>4, <2>5, <2>6, <2>7, <2>8
<1>3. CASE record[c] \notin ToSet(threads)
  <2>1. UNCHANGED <<store, T, D>>
    BY <1>3 DEF CommitRecord, store, T, D
  <2>2. IndexIsCurrent'
    BY <2>1, SameIndex DEF store
  <2> QED BY <1>1, <2>1, <2>2 DEF store, IInv, TypeOK
<1> QED BY <1>2, <1>3

LEMMA CommitNativeKeeps == ASSUME IInv, NEW c \in Calls, CommitNative(c) PROVE IInv'
<1>0. CommitRecord(c) /\ phase = "up" /\ UNCHANGED <<phase, request>>
  BY DEF CommitNative, Step, calls
<1>1. /\ UNCHANGED <<T, D, delegations, status, files>> /\ IndexIsCurrent'
      /\ \A d \in Calls : (threadFiles[d] # None => threadFiles'[d] # None)
                           /\ (threadFiles'[d] # None => threadFiles[d] # None \/ d \in T)
      /\ threads' \in Seq(Calls) /\ IsInjective(threads') /\ ready' \subseteq ToSet(threads')
      /\ threadFiles' \in [Calls -> {"creating", "ready", None}]
      /\ index' \in [requests : [Requests -> Calls \cup {None}], children : SUBSET Calls,
                     creates : [Requests -> Calls \cup {None}]]
  BY <1>0, CommitRecordKeeps
<1>2. TypeOK'
  BY <1>1 DEF CommitNative, Step, Goto, IInv, TypeOK, Labels, InMemory, calls
<1>3. Moved(c)
  BY <1>1 DEF CommitNative, Step, Goto, IInv, TypeOK, Moved, Moves
<1> QED BY <1>1, <1>2, <1>3, MoveKeeps

LEMMA PersistIdentityKeeps == ASSUME IInv, NEW c \in Calls, PersistIdentity(c) PROVE IInv'
<1>0. CommitRecord(c) /\ phase = "up" /\ UNCHANGED <<phase, request>>
  BY DEF PersistIdentity, Step, calls
<1>1. /\ UNCHANGED <<T, D, delegations, status, files>> /\ IndexIsCurrent'
      /\ \A d \in Calls : (threadFiles[d] # None => threadFiles'[d] # None)
                           /\ (threadFiles'[d] # None => threadFiles[d] # None \/ d \in T)
      /\ threads' \in Seq(Calls) /\ IsInjective(threads') /\ ready' \subseteq ToSet(threads')
      /\ threadFiles' \in [Calls -> {"creating", "ready", None}]
      /\ index' \in [requests : [Requests -> Calls \cup {None}], children : SUBSET Calls,
                     creates : [Requests -> Calls \cup {None}]]
  BY <1>0, CommitRecordKeeps
<1>2. TypeOK'
  BY <1>1 DEF PersistIdentity, Step, Goto, IInv, TypeOK, Labels, InMemory, calls
<1>3. Moved(c)
  BY <1>1 DEF PersistIdentity, Step, Goto, IInv, TypeOK, Moved, Moves, calls
<1> QED BY <1>1, <1>2, <1>3, MoveKeeps

LEMMA RenameRunningKeeps == ASSUME IInv, NEW c \in Calls, RenameRunning(c) PROVE IInv'
<1>1. files[c] # None /\ "running" # None
  BY DelegationAssumption DEF RenameRunning, Step, IInv, Racing, LiveIsStored, Live, Started, Status
<1>2. TypeOK'
  BY DEF RenameRunning, RenameStatus, Step, Goto, IInv, TypeOK, Labels, InMemory, Status
<1>3. UNCHANGED <<T, D, index>>
  BY DEF RenameRunning, RenameStatus, T, D
<1>4. Moved(c)
  BY <1>1, <1>3 DEF RenameRunning, RenameStatus, Step, Goto, IInv, TypeOK, Moved, Moves
<1>5. UNCHANGED <<request, phase>>
  BY DEF RenameRunning
<1> QED BY <1>2, <1>3, <1>4, <1>5, MoveKeeps, SameIndex

\* A status is committed: the Delegation is in memory again.
LEMMA CommitStatusKeeps ==
  ASSUME IInv, NEW d \in Calls, NEW s \in Status, CommitStatus(d, s), UNCHANGED request
  PROVE  /\ T' = T /\ D' = D \cup {d} /\ UNCHANGED <<threads, ready, threadFiles, files>>
         /\ delegations' \in Seq(Calls) /\ IsInjective(delegations')
         /\ status' \in [Calls -> Status \cup {None}]
         /\ \A c \in Calls : status'[c] # None <=> c \in ToSet(delegations')
         /\ index' \in [requests : [Requests -> Calls \cup {None}], children : SUBSET Calls,
                        creates : [Requests -> Calls \cup {None}]]
         /\ IndexIsCurrent'
<1>1. /\ threads \in Seq(Calls) /\ IsInjective(threads) /\ request \in [Calls -> Requests]
      /\ delegations \in Seq(Calls) /\ IsInjective(delegations)
      /\ status \in [Calls -> Status \cup {None}]
      /\ \A c \in Calls : status[c] # None <=> c \in ToSet(delegations)
  BY DEF IInv, TypeOK, InMemory
<1>2. /\ delegations' = Put(delegations, d) /\ status' = [status EXCEPT ![d] = s]
      /\ index' = Rebuilt(delegations', threads) /\ UNCHANGED <<threads, ready, threadFiles, files>>
  BY DEF CommitStatus
<1>3. /\ delegations' \in Seq(Calls) /\ IsInjective(delegations')
      /\ ToSet(delegations') = ToSet(delegations) \cup {d}
  BY <1>1, <1>2, PutKey
<1>4. T' = T /\ D' = D \cup {d}
  BY <1>2, <1>3 DEF T, D
<1>5. /\ status' \in [Calls -> Status \cup {None}]
      /\ \A c \in Calls : status'[c] # None <=> c \in ToSet(delegations')
  BY <1>1, <1>2, <1>3, DelegationAssumption
<1>6. /\ Indexes(index', ToSet(delegations'), ToSet(threads))
      /\ index' \in [requests : [Requests -> Calls \cup {None}], children : SUBSET Calls,
                     creates : [Requests -> Calls \cup {None}]]
  BY <1>1, <1>2, <1>3, RebuiltIndexes
<1>7. IndexIsCurrent'
  BY <1>2, <1>6 DEF IndexIsCurrent, Indexes, Apart, T, D
<1> QED BY <1>2, <1>3, <1>4, <1>5, <1>6, <1>7

LEMMA CommitRunningKeeps == ASSUME IInv, NEW c \in Calls, CommitRunning(c) PROVE IInv'
<1>1. CommitStatus(c, "running") /\ "running" \in Status /\ UNCHANGED <<phase, request>> /\ phase = "up"
  BY DEF CommitRunning, Step, Status
<1>2. c \in D
  BY DEF CommitRunning, Step, IInv, Racing, LiveIsStored, Live, Started
<1>3. /\ UNCHANGED <<T, D, threads, ready, threadFiles, files>> /\ IndexIsCurrent'
      /\ delegations' \in Seq(Calls) /\ IsInjective(delegations')
      /\ status' \in [Calls -> Status \cup {None}]
      /\ \A d \in Calls : status'[d] # None <=> d \in ToSet(delegations')
      /\ index' \in [requests : [Requests -> Calls \cup {None}], children : SUBSET Calls,
                     creates : [Requests -> Calls \cup {None}]]
  BY <1>1, <1>2, CommitStatusKeeps
<1>4. /\ pc' \in [Calls -> Settled \cup Labels] /\ answer' \in [Calls -> Calls \cup {None}]
      /\ UNCHANGED <<phase, request, record, made, turn, raced, kept, crashes, ioErrors>>
  BY DEF CommitRunning, Step, Goto, IInv, TypeOK, Labels, Settled
<1>5. TypeOK'
  BY <1>3, <1>4 DEF IInv, TypeOK, InMemory
<1>6. Moved(c)
  BY <1>3 DEF CommitRunning, Step, Goto, IInv, TypeOK, Moved, Moves
<1> QED BY <1>5, <1>3, <1>6, MoveKeeps

LEMMA LookupKeeps == ASSUME IInv, NEW c \in Calls, Lookup(c) PROVE IInv'
<1> DEFINE found == index.requests[request[c]]
<1>1. /\ phase = "up" /\ phase' = "up" /\ pc[c] = "idle"
      /\ \A d \in Calls \ {c} : pc'[d] = pc[d] /\ answer'[d] = answer[d]
      /\ pc'[c] = (IF found = None THEN "provision" ELSE "answered") /\ answer'[c] = found
      /\ raced' = (raced \/ \E d \in Active : request[d] = request[c])
      /\ UNCHANGED <<store, request, record, made, turn, kept, crashes>>
  BY DEF Lookup, Step, Goto, IInv, TypeOK
<1>2. /\ request[c] \in Requests /\ found \in Calls \cup {None}
  BY DEF IInv, TypeOK
<1>3. TypeOK'
  BY <1>2 DEF Lookup, Step, Goto, IInv, TypeOK, store, Labels, Settled, InMemory
<1>4. UNCHANGED <<T, D, files, threadFiles, index>>
  BY <1>1 DEF store, T, D
<1> HIDE DEF T, D
<1>5. ~Entry(c) /\ c \notin T /\ threadFiles[c] = None /\ turn[c] = "none" /\ answer[c] # c
      /\ \A d \in Calls : record[d] = c => turn[d] \notin {"checked", "renamed"}
  BY <1>1 DEF IInv, Racing, Stored, TurnsAreOf, LiveIsStored, Wrote, Provisioned
<1>6. found # None => found \in D /\ request[found] = request[c] /\ Wrote(found) /\ found # c
  <2>1. found # None => found \in D /\ request[found] = request[c]
    BY <1>1, <1>2 DEF IInv, Racing, IndexIsCurrent, Indexes
  <2> QED BY <1>2, <1>5, <2>1 DEF IInv, Racing, Stored, Entry
<1> HIDE DEF found
<1>7. Stored'
  BY <1>1, <1>4, <1>5 DEF IInv, Racing, Stored, Entry, Wrote, Provisioned, Answers
<1>8. TurnsAreOf'
  BY <1>1, <1>5, <1>3 DEF IInv, Racing, TurnsAreOf, Wrote, Answers, Settled, TypeOK
<1>9. LiveIsStored'
  BY <1>1, <1>2, <1>4, <1>5, <1>6, DelegationAssumption DEF IInv, Racing, LiveIsStored, Live, Started
<1>10. IndexIsCurrent'
  BY <1>1, <1>4, SameIndex
<1>11. ASSUME Tidy' PROVE Unraced'
  <2>1. Tidy /\ \A d \in Active : request[d] # request[c]
    BY <1>1, <1>5, <1>11 DEF Tidy, IInv, TypeOK
  <2>2. Unraced
    BY <2>1 DEF IInv
  <2>3. Active' = Active \cup {d \in {c} : found = None}
    BY <1>1 DEF Active, Settled
  <2>4. found = None => \A d \in Calls : Entry(d) => request[d] # request[c]
    <3>1. ASSUME found = None, NEW d \in Calls, Entry(d) PROVE request[d] # request[c]
      <4>1. d \in D \/ d \in Active
        BY <1>1, <2>2, <3>1 DEF Unraced, FilesInMemory, Entry, Active, Settled
      <4>2. Apart(D)
        BY <2>2, SetOfSequence DEF Unraced, RequestsApart, Apart, Entry, D, IInv, TypeOK
      <4>3. d \in D => index.requests[request[d]] = d
        BY <1>1, <4>2 DEF IInv, Racing, IndexIsCurrent, Indexes
      <4> QED BY <2>1, <3>1, <4>1, <4>3, DelegationAssumption DEF found
    <3> QED BY <3>1
  <2>5. RequestsApart'
    BY <1>1, <1>4, <2>1, <2>2, <2>3, <2>4 DEF Unraced, RequestsApart, Apart, Entry
  <2>6. FilesInMemory'
    BY <1>1, <1>4, <2>2, <2>3 DEF Unraced, FilesInMemory
  <2>7. RecordsAreOwn'
    BY <1>1, <1>4, <2>2 DEF Unraced, RecordsAreOwn, Abandoned, Entry, IInv, TypeOK
  <2>8. GivenUp'
    BY <1>1, <1>4, <1>5, <2>2 DEF Unraced, GivenUp, Entry
  <2>9. AnswersAreStored'
    <3>1. ASSUME crashes = 0, found # None PROVE answer[found] = found \/ Soiled(request[c])
      <4>1. found \in Calls /\ Entry(found) /\ pc[found] # "idle" /\ found \notin Active
        BY <1>2, <1>6, <2>1, <3>1 DEF Entry, Wrote
      <4>2. pc[found] # "lost"
        BY <2>2, <3>1, <4>1 DEF Unraced, AnswersAreStored, Soiled
      <4>3. CASE pc[found] = "failed"
        <5>1. found \in kept
          BY <2>1, <2>2, <4>1, <4>3 DEF Tidy, Unraced, GivenUp
        <5> QED BY <1>6, <3>1, <5>1 DEF Soiled
      <4>4. CASE pc[found] # "failed"
        <5>1. pc[found] = "answered"
          BY <4>1, <4>2, <4>4 DEF Active, Settled
        <5> QED BY <1>6, <3>1, <5>1 DEF Wrote, Answers
      <4> QED BY <4>3, <4>4
    <3>2. ASSUME crashes = 0, NEW d \in Calls, pc'[d] = "answered"
          PROVE  /\ answer'[d] \in Calls /\ request[answer'[d]] = request[d]
                 /\ answer'[answer'[d]] = answer'[d] \/ Soiled(request[d])
      <4>1. CASE d = c
        BY <1>1, <1>2, <1>6, <3>1, <3>2, <4>1
      <4>2. CASE d # c
        <5>1. /\ answer[d] \in Calls /\ request[answer[d]] = request[d] /\ answer'[d] = answer[d]
              /\ answer[answer[d]] = answer[d] \/ Soiled(request[d])
          BY <1>1, <2>2, <3>2, <4>2 DEF Unraced, AnswersAreStored
        <5> QED BY <1>1, <1>5, <5>1
      <4> QED BY <4>1, <4>2
    <3>3. ASSUME crashes = 0, NEW d \in Calls, pc'[d] \in Labels \ {"provision"} \/ answer'[d] = d
          PROVE  d \in T \/ Soiled(request[d])
      <4>1. d # c
        BY <1>1, <1>6, <3>3, DelegationAssumption DEF Labels
      <4> QED BY <1>1, <2>2, <3>3, <4>1 DEF Unraced, AnswersAreStored
    <3>4. crashes = 0 => \A d \in Calls : pc'[d] # "lost"
      BY <1>1, <2>2 DEF Unraced, AnswersAreStored, Soiled
    <3> QED BY <1>1, <1>4, <3>2, <3>3, <3>4 DEF AnswersAreStored, Soiled
  <2> QED BY <1>1, <2>5, <2>6, <2>7, <2>8, <2>9 DEF Unraced, StoreReopens
<1> QED BY <1>3, <1>7, <1>8, <1>9, <1>10, <1>11 DEF IInv, Racing

LEMMA EndTurnKeeps == ASSUME IInv, NEW c \in Calls, EndTurn(c) PROVE IInv'
<1>1. /\ phase = "up" /\ phase' = "up" /\ turn[c] = "running" /\ turn'[c] \in {"checked", "done"}
      /\ turn'[c] = "checked" => record[c] \in index.children
      /\ \A d \in Calls \ {c} : turn'[d] = turn[d]
      /\ UNCHANGED <<store, pc, request, record, made, answer, raced, kept, crashes>>
  BY DEF EndTurn, IInv, TypeOK
<1>2. TypeOK'
  BY DEF EndTurn, IInv, TypeOK, store, InMemory
<1>3. UNCHANGED <<T, D, files, threadFiles, index>>
  BY <1>1 DEF store, T, D
<1>4. D \subseteq Calls
  BY SetOfSequence DEF D, IInv, TypeOK
<1> HIDE DEF T, D
<1>5. turn'[c] = "checked" => record[c] \in D
  BY <1>1 DEF IInv, Racing, IndexIsCurrent, Indexes
<1>6. Stored'
  BY <1>1, <1>3 DEF IInv, Racing, Stored, Entry, Wrote, Provisioned, Answers
<1>7. TurnsAreOf'
  BY <1>1, <1>4, <1>5 DEF IInv, Racing, TurnsAreOf, Stored, Entry, Wrote, Answers
<1>8. LiveIsStored'
  BY <1>1, <1>3 DEF IInv, Racing, LiveIsStored, Live
<1>9. IndexIsCurrent'
  BY <1>1, <1>3, SameIndex
<1>10. ASSUME Tidy' PROVE Unraced'
  <2>1. Unraced
    BY <1>1, <1>10 DEF IInv, Tidy
  <2>2. RequestsApart' /\ FilesInMemory' /\ AnswersAreStored'
    BY <1>1, <1>3, <2>1 DEF Unraced, RequestsApart, FilesInMemory, AnswersAreStored, Soiled, Apart, Entry, Active
  <2>3. RecordsAreOwn'
    BY <1>1, <1>3, <1>4, <1>5, <2>1, DelegationAssumption DEF Unraced, RecordsAreOwn, Abandoned, Entry
  <2>4. GivenUp'
    BY <1>1, <1>3, <2>1 DEF Unraced, GivenUp, Entry
  <2> QED BY <1>1, <2>2, <2>3, <2>4 DEF Unraced, StoreReopens
<1> QED BY <1>2, <1>6, <1>7, <1>8, <1>9, <1>10 DEF IInv, Racing

LEMMA ProvisionKeeps == ASSUME IInv, NEW c \in Calls, Provision(c) PROVE IInv'
<1> DEFINE known == index.creates[request[c]]
<1>1. /\ phase = "up" /\ phase' = "up" /\ pc[c] = "provision"
      /\ \A d \in Calls \ {c} : pc'[d] = pc[d] /\ record'[d] = record[d]
      /\ pc'[c] \in {"delegate", "failed"} /\ record'[c] = IF known = None THEN c ELSE known
      /\ UNCHANGED <<ready, delegations, status, files, request, made, turn, answer, raced, kept, crashes>>
  BY DEF Provision, Step, Goto, IInv, TypeOK, store
<1>2. /\ threads \in Seq(Calls) /\ IsInjective(threads) /\ ready \subseteq ToSet(threads)
      /\ delegations \in Seq(Calls) /\ IsInjective(delegations)
      /\ request \in [Calls -> Requests] /\ request[c] \in Requests
      /\ threadFiles \in [Calls -> {"creating", "ready", None}] /\ known \in Calls \cup {None}
  BY DEF IInv, TypeOK
<1>3. /\ ~Entry(c) /\ c \notin T /\ threadFiles[c] = None /\ turn[c] = "none" /\ answer[c] # c
      /\ \A d \in Calls : record[d] = c => turn[d] \notin {"checked", "renamed"}
  BY <1>1 DEF IInv, Racing, Stored, TurnsAreOf, LiveIsStored, Wrote, Provisioned
<1>4. CASE known # None
  <2>1. pc'[c] = "delegate" /\ UNCHANGED <<threads, threadFiles, index>>
    BY <1>4 DEF Provision, Step, Goto, IInv, TypeOK, store
  <2>2. UNCHANGED <<T, D>>
    BY <1>1, <2>1 DEF T, D
  <2>3. TypeOK'
    BY <1>1, <1>2, <1>4, <2>1 DEF Provision, Goto, IInv, TypeOK, Labels, InMemory
  <2>4. Racing'
    <3> HIDE DEF T, D, known
    <3>1. Stored'
      BY <1>1, <1>3, <2>1, <2>2 DEF IInv, Racing, Stored, Entry, Wrote, Provisioned, Answers
    <3>2. TurnsAreOf'
      BY <1>1, <1>3 DEF IInv, Racing, TurnsAreOf, Wrote, Answers, Settled, TypeOK
    <3>3. LiveIsStored'
      BY <1>1, <1>3, <2>1, <2>2 DEF IInv, Racing, LiveIsStored, Live, Started
    <3>4. IndexIsCurrent'
      BY <1>1, <2>1, <2>2, SameIndex
    <3> QED BY <3>1, <3>2, <3>3, <3>4 DEF Racing
  <2>5. ASSUME Tidy' PROVE Unraced'
    <3>1. Unraced /\ Tidy
      BY <1>1, <1>3, <2>5 DEF IInv, Tidy, TypeOK
    <3>2. c \in Active /\ Active' = Active
      BY <1>1, <2>1 DEF Active, Settled
    <3>3. known \in T /\ known \in Calls /\ request[known] = request[c] /\ known # c
      BY <1>1, <1>2, <1>3, <1>4 DEF IInv, Racing, IndexIsCurrent, Indexes
    <3> HIDE DEF T, D, known
    <3>4. ~Entry(known) /\ known \notin Active
      BY <3>1, <3>2, <3>3 DEF Unraced, RequestsApart, Apart
    <3>5. Abandoned(known)
      <4>1. pc[known] # "idle" /\ Answers(known)
        BY <3>3 DEF IInv, Racing, Stored, Provisioned
      <4>2. pc[known] # "answered"
        BY <3>3, <3>4, <4>1 DEF IInv, Racing, LiveIsStored, Live, Answers, Entry
      <4>3. pc[known] = "failed" => known \in kept
        BY <3>1, <3>3 DEF Tidy, Unraced, GivenUp
      <4> QED BY <3>3, <3>4, <4>1, <4>2, <4>3 DEF Active, Settled, Abandoned
    <3>6. RequestsApart' /\ FilesInMemory'
      BY <1>1, <2>1, <2>2, <3>1, <3>2 DEF Unraced, RequestsApart, FilesInMemory, Apart, Entry
    <3>7. RecordsAreOwn'
      <4>1. ASSUME NEW d \in Calls, record'[d] \notin {None, d}
            PROVE  record'[d] \in Calls \ {c} /\ Abandoned(record'[d]) /\ ~Entry(record'[d])
        BY <1>1, <1>4, <3>1, <3>3, <3>4, <3>5, <4>1 DEF Unraced, RecordsAreOwn, Abandoned, IInv, TypeOK
      <4>2. \A d \in Calls : turn[d] \in {"checked", "renamed"} => record'[d] = d
        BY <1>1, <1>3, <3>1 DEF Unraced, RecordsAreOwn, Abandoned
      <4> QED BY <1>1, <2>2, <4>1, <4>2 DEF RecordsAreOwn, Abandoned, Entry
    <3>8. GivenUp'
      BY <1>1, <2>1, <2>2, <3>1 DEF Unraced, GivenUp, Entry
    <3>9. AnswersAreStored'
      <4>1. crashes = 0 => Soiled(request[c])
        BY <3>1, <3>3, <3>5 DEF Unraced, AnswersAreStored, Soiled, Abandoned
      <4>2. Soiled(request[c]) => Soiled(request[c])'
        BY <1>1 DEF Soiled
      <4> QED BY <1>1, <1>3, <2>1, <2>2, <3>1, <4>1, <4>2 DEF Unraced, AnswersAreStored, Soiled
    <3> QED BY <1>1, <3>6, <3>7, <3>8, <3>9 DEF Unraced, StoreReopens
  <2> QED BY <2>3, <2>4, <2>5 DEF IInv
<1>5. CASE known = None
  <2>1. /\ threads' = Append(threads, c) /\ threadFiles' = [threadFiles EXCEPT ![c] = "creating"]
        /\ index' = Rebuilt(delegations, threads')
        /\ pc'[c] = IF Throws(delegations, threads') THEN "failed" ELSE "delegate"
    BY <1>5 DEF Provision, Step, Goto, IInv, TypeOK
  <2>2. /\ threads' \in Seq(Calls) /\ IsInjective(threads') /\ ToSet(threads') = ToSet(threads) \cup {c}
    BY <1>2, <1>3, <2>1, AppendKey DEF T
  <2>3. /\ Throws(delegations, threads') <=> ~(Apart(ToSet(delegations)) /\ Apart(ToSet(threads')))
        /\ Indexes(index', ToSet(delegations), ToSet(threads'))
        /\ index' \in [requests : [Requests -> Calls \cup {None}], children : SUBSET Calls,
                       creates : [Requests -> Calls \cup {None}]]
    BY <1>2, <2>1, <2>2, RebuiltIndexes
  <2>4. D' = D /\ T' = T \cup {c} /\ IndexIsCurrent'
    BY <1>1, <2>2, <2>3 DEF T, D, IndexIsCurrent, Indexes, Apart
  <2>5. TypeOK'
    <3>1. pc' \in [Calls -> Settled \cup Labels] /\ record' \in [Calls -> Calls \cup {None}]
      <4>1. PICK to \in {"delegate", "failed"} : pc' = [pc EXCEPT ![c] = to]
        BY <1>5 DEF Provision, Goto
      <4>2. record' = [record EXCEPT ![c] = c]
        BY <1>5 DEF Provision
      <4> QED BY <4>1, <4>2 DEF IInv, TypeOK, Labels, Settled
    <3>2. /\ threadFiles' \in [Calls -> {"creating", "ready", None}] /\ ready' \subseteq ToSet(threads')
          /\ UNCHANGED <<phase, ioErrors>>
      BY <1>1, <1>2, <2>1, <2>2 DEF Provision
    <3> QED BY <1>1, <2>2, <2>3, <3>1, <3>2 DEF IInv, TypeOK, InMemory
  <2>6. "creating" # None /\ \A d \in Calls : threadFiles'[d] # None <=> threadFiles[d] # None \/ d = c
    BY <1>2, <2>1, DelegationAssumption DEF Status
  <2>7. Racing'
    <3> HIDE DEF T, D, known
    <3>1. Stored'
      BY <1>1, <1>3, <2>4, <2>6 DEF IInv, Racing, Stored, Entry, Wrote, Provisioned, Answers
    <3>2. TurnsAreOf'
      BY <1>1, <1>3 DEF IInv, Racing, TurnsAreOf, Wrote, Answers, Settled, TypeOK
    <3>3. LiveIsStored'
      BY <1>1, <1>3, <2>4 DEF IInv, Racing, LiveIsStored, Live, Started
    <3> QED BY <2>4, <3>1, <3>2, <3>3 DEF Racing
  <2>8. ASSUME Tidy' PROVE Unraced'
    <3>1. Unraced /\ Tidy
      BY <1>1, <1>3, <2>8 DEF IInv, Tidy, TypeOK
    <3>2. c \in Active
      BY <1>1 DEF Active, Settled
    <3>3. Apart(D) /\ Apart(T)
      BY <1>1, <1>2, <3>1, SetOfSequence DEF Unraced, RequestsApart, Apart, Entry, D, T, IInv, Racing, Stored
    <3>4. \A d \in T : request[d] # request[c]
      BY <1>1, <1>2, <1>5, <3>3, SetOfSequence, DelegationAssumption DEF IInv, Racing, IndexIsCurrent, Indexes, T
    <3>5. Apart(T')
      BY <2>4, <3>3, <3>4, <1>1 DEF Apart
    <3>6. pc'[c] = "delegate"
      BY <1>1, <2>1, <2>3, <3>3, <3>5 DEF T, D, Apart
    <3>7. Active' = Active
      BY <1>1, <3>2, <3>6 DEF Active, Settled
    <3> HIDE DEF T, D, known
    <3>8. RequestsApart' /\ FilesInMemory'
      <4>1. Apart({d \in Calls : d \in T \/ threadFiles[d] # None})'
        BY <1>1, <2>4, <2>6, <3>1, <3>4 DEF Apart, Unraced, RequestsApart, IInv, Racing, Stored
      <4> QED BY <1>1, <2>4, <3>1, <3>7, <4>1 DEF Unraced, RequestsApart, FilesInMemory, Apart, Entry
    <3>9. RecordsAreOwn'
      <4>1. ASSUME NEW d \in Calls, record'[d] \notin {None, d}
            PROVE  record'[d] \in Calls \ {c} /\ Abandoned(record'[d]) /\ ~Entry(record'[d])
        BY <1>1, <1>5, <3>1, <4>1 DEF Unraced, RecordsAreOwn, Abandoned, IInv, TypeOK
      <4>2. \A d \in Calls : turn[d] \in {"checked", "renamed"} => record'[d] = d
        BY <1>1, <1>3, <3>1 DEF Unraced, RecordsAreOwn, Abandoned
      <4> QED BY <1>1, <2>4, <4>1, <4>2 DEF RecordsAreOwn, Abandoned, Entry
    <3>10. GivenUp'
      BY <1>1, <2>4, <2>6, <3>1, <3>6 DEF Unraced, GivenUp, Entry
    <3>11. AnswersAreStored'
      BY <1>1, <2>4, <3>1, <3>6 DEF Unraced, AnswersAreStored, Soiled
    <3> QED BY <1>1, <3>8, <3>9, <3>10, <3>11 DEF Unraced, StoreReopens
  <2> QED BY <2>5, <2>7, <2>8 DEF IInv
<1> QED BY <1>4, <1>5

LEMMA WriteDelegationKeeps == ASSUME IInv, NEW c \in Calls, WriteDelegation(c) PROVE IInv'
<1>1. /\ phase = "up" /\ phase' = "up" /\ pc[c] = "writing"
      /\ \A d \in Calls \ {c} : pc'[d] = pc[d]
      /\ pc'[c] = IF Throws(delegations', threads) THEN "drop" ELSE "open"
      /\ delegations' = Append(delegations, c) /\ index' = Rebuilt(delegations', threads)
      /\ files' = [files EXCEPT ![c] = "creating"] /\ status' = [status EXCEPT ![c] = "creating"]
      /\ UNCHANGED <<threads, ready, threadFiles, request, record, turn, answer, raced, kept, crashes>>
  BY DEF WriteDelegation, Step, Goto, IInv, TypeOK
<1>2. /\ threads \in Seq(Calls) /\ IsInjective(threads)
      /\ delegations \in Seq(Calls) /\ IsInjective(delegations)
      /\ request \in [Calls -> Requests] /\ files \in [Calls -> Status \cup {None}]
      /\ "creating" # None /\ "creating" \in Status
  BY DelegationAssumption DEF IInv, TypeOK, Status
<1>3. /\ ~Entry(c) /\ c \notin D /\ turn[c] = "none" /\ answer[c] # c
      /\ \A d \in Calls : record[d] = c => turn[d] \notin {"checked", "renamed"}
  BY <1>1 DEF IInv, Racing, Stored, TurnsAreOf, LiveIsStored, Wrote, Entry
<1>4. /\ delegations' \in Seq(Calls) /\ IsInjective(delegations')
      /\ ToSet(delegations') = ToSet(delegations) \cup {c}
  BY <1>1, <1>2, <1>3, AppendKey DEF D
<1>5. /\ Throws(delegations', threads) <=> ~(Apart(ToSet(delegations')) /\ Apart(ToSet(threads)))
      /\ Indexes(index', ToSet(delegations'), ToSet(threads))
      /\ index' \in [requests : [Requests -> Calls \cup {None}], children : SUBSET Calls,
                     creates : [Requests -> Calls \cup {None}]]
  BY <1>1, <1>2, <1>4, RebuiltIndexes
<1>6. T' = T /\ D' = D \cup {c} /\ IndexIsCurrent'
  BY <1>1, <1>4, <1>5 DEF T, D, IndexIsCurrent, Indexes, Apart
<1>7. TypeOK'
  <2>1. /\ status' \in [Calls -> Status \cup {None}] /\ files' \in [Calls -> Status \cup {None}]
        /\ \A d \in Calls : status'[d] # None <=> d \in ToSet(delegations')
    BY <1>1, <1>2, <1>4 DEF IInv, TypeOK, InMemory
  <2>2. pc' \in [Calls -> Settled \cup Labels] /\ made' \subseteq Calls /\ ioErrors' = ioErrors
    <3>1. pc' = [pc EXCEPT ![c] = "drop"] \/ pc' = [pc EXCEPT ![c] = "open"]
      BY DEF WriteDelegation, Goto
    <3>2. made' \in {made, made \cup {c}} /\ ioErrors' = ioErrors
      BY DEF WriteDelegation
    <3> QED BY <3>1, <3>2 DEF IInv, TypeOK, Labels
  <2>3. UNCHANGED <<phase, threads, ready, threadFiles, request, record, turn, answer, raced, kept, crashes>>
    BY <1>1
  <2>4. index' \in [requests : [Requests -> Calls \cup {None}], children : SUBSET Calls,
                   creates : [Requests -> Calls \cup {None}]]
    BY <1>5
  <2> QED BY <1>4, <2>1, <2>2, <2>3, <2>4 DEF IInv, TypeOK, InMemory
<1>8. \A d \in Calls : files'[d] # None <=> files[d] # None \/ d = c
  BY <1>1, <1>2
<1>9. pc'[c] = IF Apart(D \cup {c}) /\ Apart(T) THEN "open" ELSE "drop"
  BY <1>1, <1>4, <1>5 DEF D, T
<1>10. D \subseteq Calls /\ T \subseteq Calls
  BY <1>2, SetOfSequence DEF D, T
<1> HIDE DEF T, D
<1>11. Stored'
  BY <1>1, <1>3, <1>6, <1>8, <1>9 DEF IInv, Racing, Stored, Entry, Wrote, Provisioned, Answers
<1>12. TurnsAreOf'
  BY <1>1, <1>3, <1>7 DEF IInv, Racing, TurnsAreOf, Wrote, Answers, Settled, TypeOK
<1>13. LiveIsStored'
  <2>1. \A d \in Calls \ {c} : Live(d)' <=> Live(d)
    BY <1>1 DEF Live
  <2>2. Live(c)' => Apart(D \cup {c})
    BY <1>1, <1>3, <1>9 DEF Live, Started
  <2>3. \A d \in Calls : Live(d)' \/ pc'[d] = "cleanup" => files'[d] # None /\ d \in D'
    BY <1>1, <1>6, <1>8, <1>9, <2>1 DEF IInv, Racing, LiveIsStored
  <2>4. ASSUME NEW d \in Calls, NEW e \in Calls, Live(d)', Live(e)', request[d] = request[e] PROVE d = e
    <3>1. d \in D \cup {c} /\ e \in D \cup {c}
      BY <1>6, <2>3, <2>4
    <3>2. CASE Live(c)'
      BY <2>2, <2>4, <3>1, <3>2 DEF Apart
    <3>3. CASE ~Live(c)'
      BY <2>1, <2>4, <3>3 DEF IInv, Racing, LiveIsStored
    <3> QED BY <3>2, <3>3
  <2>5. \A d \in Calls : answer'[d] = d => pc'[d] = "answered"
    BY <1>1, <1>3 DEF IInv, Racing, LiveIsStored
  <2> QED BY <1>1, <2>3, <2>4, <2>5 DEF LiveIsStored
<1>14. ASSUME Tidy' PROVE Unraced'
  <2>1. Unraced
    BY <1>1, <1>3, <1>14 DEF IInv, Tidy
  <2>2. c \in Active
    BY <1>1 DEF Active, Settled
  <2>3. Apart(D) /\ Apart(T)
    BY <1>1, <1>10, <2>1 DEF Unraced, RequestsApart, Apart, Entry, IInv, Racing, Stored
  <2>4. \A d \in Calls : Entry(d) => request[d] # request[c]
    BY <1>3, <2>1, <2>2 DEF Unraced, RequestsApart
  <2>5. Apart(D \cup {c})
    BY <1>10, <2>3, <2>4 DEF Apart, Entry
  <2>6. pc'[c] = "open"
    BY <1>9, <2>3, <2>5
  <2>7. Active' = Active
    BY <1>1, <2>2, <2>6 DEF Active, Settled
  <2>8. RequestsApart'
    <3>1. \A d \in Calls : Entry(d)' <=> Entry(d) \/ d = c
      BY <1>6, <1>8 DEF Entry
    <3>2. Apart({d \in Calls : Entry(d)})'
      BY <1>1, <2>1, <2>4, <3>1 DEF Apart, Unraced, RequestsApart
    <3>3. \A a \in Active, d \in Calls : Entry(d)' /\ request[a] = request[d] => a = d
      BY <2>1, <2>2, <3>1 DEF Apart, Unraced, RequestsApart
    <3>4. Apart({d \in Calls : d \in T \/ threadFiles[d] # None})'
      BY <1>1, <1>6, <2>1 DEF Apart, Unraced, RequestsApart
    <3> QED BY <1>1, <2>1, <2>7, <3>2, <3>3, <3>4 DEF Apart, Unraced, RequestsApart
  <2>9. FilesInMemory'
    BY <1>1, <1>6, <1>8, <2>1, <2>7 DEF Unraced, FilesInMemory
  <2>10. RecordsAreOwn'
    BY <1>1, <1>6, <1>8, <2>1 DEF Unraced, RecordsAreOwn, Abandoned, Entry, IInv, TypeOK
  <2>11. GivenUp'
    BY <1>1, <1>6, <1>8, <2>1, <2>6 DEF Unraced, GivenUp, Entry
  <2>12. AnswersAreStored'
    BY <1>1, <1>6, <2>1, <2>6 DEF Unraced, AnswersAreStored, Soiled, Labels
  <2> QED BY <1>1, <2>8, <2>9, <2>10, <2>11, <2>12 DEF Unraced, StoreReopens
<1> QED BY <1>6, <1>7, <1>11, <1>12, <1>13, <1>14 DEF IInv, Racing

\* The end of a Turn is recorded, in the file or in memory.
LEMMA RecordKeeps ==
  ASSUME IInv, NEW c \in Calls, phase = "up", turn[c] \in {"checked", "renamed"},
         turn'[c] \in {"renamed", "done"}, \A d \in Calls \ {c} : turn'[d] = turn[d],
         UNCHANGED <<phase, pc, request, record, answer, raced, kept, crashes, T, threadFiles>>,
         \A d \in Calls : files[d] # None => files'[d] # None,
         \A d \in Calls : files'[d] # None => files[d] # None \/ (d = record[c] /\ UNCHANGED D),
         D \subseteq D', D' \subseteq D \cup {record[c]},
         TypeOK', IndexIsCurrent'
  PROVE  IInv'
<1> HIDE DEF T, D
<1>1. record[c] \in Calls /\ Wrote(record[c])
  BY DEF IInv, Racing, TurnsAreOf
<1>2. \A d \in Calls : Entry(d)' => Entry(d) \/ d = record[c]
  BY DEF Entry
<1>3. \A d \in Calls : Entry(d) => Entry(d)'
  BY DEF Entry
<1>4. Stored'
  BY <1>1, <1>2 DEF IInv, Racing, Stored, Wrote, Provisioned, Answers
<1>5. TurnsAreOf'
  BY DEF IInv, Racing, TurnsAreOf, Wrote, Answers
<1>6. LiveIsStored'
  BY DEF IInv, Racing, LiveIsStored, Live
<1>7. ASSUME Tidy' PROVE Unraced'
  <2>1. Unraced /\ pc[c] # "failed"
    BY <1>7 DEF IInv, Tidy
  <2>2. record[c] = c
    BY <2>1 DEF Unraced, RecordsAreOwn, Abandoned
  <2>3. pc[c] # "lost" /\ pc[c] # "idle"
    BY DEF IInv, Racing, TurnsAreOf, Wrote
  <2>4. c \in Active \/ (files[c] # None /\ c \in D)
    BY <1>1, <2>1, <2>2, <2>3 DEF Active, Settled, Wrote, Answers, IInv, Racing, LiveIsStored, Live
  <2>5. \A d \in Calls : Entry(d) /\ request[d] = request[c] => d = c
    BY <2>1, <2>4 DEF Unraced, RequestsApart, Apart, Entry
  <2>6. RequestsApart'
    <3>1. Apart({d \in Calls : Entry(d)})'
      BY <1>2, <2>1, <2>2, <2>5 DEF Unraced, RequestsApart, Apart
    <3>2. Active' = Active
      BY DEF Active
    <3>3. \A a \in Active, d \in Calls : Entry(d)' /\ request[a] = request[d] => a = d
      BY <1>2, <2>1, <2>2, <2>4 DEF Unraced, RequestsApart, Apart, Entry
    <3> QED BY <2>1, <3>1, <3>2, <3>3 DEF Unraced, RequestsApart, Apart
  <2>7. FilesInMemory'
    <3>1. c \in D \/ pc[c] \in {"forget", "drop"}
      <4>1. Wrote(c) /\ pc[c] \in Settled \cup Labels
        BY <1>1, <2>2 DEF IInv, TypeOK
      <4>2. Live(c) \/ pc[c] \in {"cleanup", "forget", "drop"}
        BY <2>1, <2>3, <4>1 DEF Live, Started, Wrote, Answers, Settled, Labels
      <4> QED BY <4>2 DEF IInv, Racing, LiveIsStored
    <3>2. \A d \in Calls : turn[d] # "none" => turn'[d] # "none"
      OBVIOUS
    <3> QED BY <2>1, <2>2, <3>1, <3>2 DEF Unraced, FilesInMemory
  <2>8. RecordsAreOwn'
    BY <1>2, <2>1, <2>2, <2>3 DEF Unraced, RecordsAreOwn, Abandoned, IInv, TypeOK
  <2>9. GivenUp'
    BY <1>2, <2>1, <2>2 DEF Unraced, GivenUp, Entry
  <2>10. AnswersAreStored'
    BY <2>1 DEF Unraced, AnswersAreStored, Soiled
  <2> QED BY <2>6, <2>7, <2>8, <2>9, <2>10 DEF Unraced, StoreReopens
<1> QED BY <1>4, <1>5, <1>6, <1>7 DEF IInv, Racing

LEMMA RenameCompletedKeeps == ASSUME IInv, NEW c \in Calls, RenameCompleted(c) PROVE IInv'
<1>1. /\ phase = "up" /\ turn[c] = "checked" /\ turn'[c] = "renamed"
      /\ \A d \in Calls \ {c} : turn'[d] = turn[d]
      /\ files' = [files EXCEPT ![record[c]] = "completed"]
      /\ UNCHANGED <<phase, pc, request, record, answer, raced, kept, crashes, threads, threadFiles, delegations, index>>
  BY DEF RenameCompleted, RenameStatus, IInv, TypeOK
<1>2. files \in [Calls -> Status \cup {None}] /\ "completed" \in Status /\ "completed" # None
  BY DelegationAssumption DEF IInv, TypeOK, Status
<1>3. TypeOK'
  BY <1>2 DEF RenameCompleted, RenameStatus, IInv, TypeOK, InMemory
<1>4. UNCHANGED <<T, D>>
  BY <1>1 DEF T, D
<1> HIDE DEF T, D
<1>5. IndexIsCurrent'
  BY <1>1, <1>4, SameIndex
<1>6. /\ \A d \in Calls : files[d] # None => files'[d] # None
      /\ \A d \in Calls : files'[d] # None => files[d] # None \/ d = record[c]
  BY <1>1, <1>2
<1> QED BY <1>1, <1>3, <1>4, <1>5, <1>6, RecordKeeps

LEMMA CommitCompletedKeeps == ASSUME IInv, NEW c \in Calls, CommitCompleted(c) PROVE IInv'
<1>1. /\ phase = "up" /\ turn[c] = "renamed" /\ turn'[c] = "done"
      /\ \A d \in Calls \ {c} : turn'[d] = turn[d]
      /\ CommitStatus(record[c], "completed") /\ "completed" \in Status
      /\ UNCHANGED <<phase, pc, request, record, answer, raced, kept, crashes>>
  BY DEF CommitCompleted, IInv, TypeOK, Status
<1>2. record[c] \in Calls
  BY <1>1 DEF IInv, Racing, TurnsAreOf
<1>3. /\ T' = T /\ D' = D \cup {record[c]} /\ UNCHANGED <<threads, ready, threadFiles, files>>
      /\ delegations' \in Seq(Calls) /\ IsInjective(delegations')
      /\ status' \in [Calls -> Status \cup {None}]
      /\ \A d \in Calls : status'[d] # None <=> d \in ToSet(delegations')
      /\ index' \in [requests : [Requests -> Calls \cup {None}], children : SUBSET Calls,
                     creates : [Requests -> Calls \cup {None}]]
      /\ IndexIsCurrent'
  BY <1>1, <1>2, CommitStatusKeeps
<1>4. turn' \in [Calls -> {"none", "running", "checked", "renamed", "done"}]
      /\ UNCHANGED <<phase, pc, request, record, made, answer, raced, kept, crashes, ioErrors>>
  BY DEF CommitCompleted, IInv, TypeOK
<1>5. TypeOK'
  BY <1>3, <1>4 DEF IInv, TypeOK, InMemory
<1> HIDE DEF T, D
<1> QED BY <1>1, <1>3, <1>5, RecordKeeps

\* A start gives up its Delegation: the file, then the memory.
LEMMA GiveUpKeeps ==
  ASSUME IInv, NEW c \in Calls, phase = "up", <<pc[c], pc'[c]>> \in {<<"cleanup", "forget">>, <<"forget", "drop">>},
         \A d \in Calls \ {c} : pc'[d] = pc[d] /\ files'[d] = files[d],
         files'[c] \in {files[c], None}, pc'[c] = "forget" => files'[c] = None,
         D \ {c} \subseteq D', D' \subseteq D, pc'[c] = "drop" => c \notin D',
         UNCHANGED <<phase, request, record, turn, answer, raced, kept, crashes, T, threadFiles>>,
         TypeOK', IndexIsCurrent'
  PROVE  IInv'
<1> HIDE DEF T, D
<1>1. /\ \A d \in Calls : Entry(d)' => Entry(d)
      /\ \A d \in Calls \ {c} : Entry(d) => Entry(d)'
      /\ pc'[c] \in {"forget", "drop"} /\ pc[c] \in {"cleanup", "forget"} /\ answer[c] # c
  BY DEF Entry, IInv, Racing, LiveIsStored
<1>2. Stored'
  BY <1>1 DEF IInv, Racing, Stored, Wrote, Provisioned, Answers
<1>3. TurnsAreOf'
  BY <1>1 DEF IInv, Racing, TurnsAreOf, Wrote, Answers
<1>4. LiveIsStored'
  BY <1>1 DEF IInv, Racing, LiveIsStored, Live, Started
<1>5. ASSUME Tidy' PROVE Unraced'
  <2>1. Unraced
    BY <1>1, <1>5 DEF IInv, Tidy
  <2>2. Active' = Active /\ c \in Active
    BY <1>1 DEF Active, Settled
  <2>3. RequestsApart'
    BY <1>1, <2>1, <2>2 DEF Unraced, RequestsApart, Apart
  <2>4. FilesInMemory'
    BY <1>1, <2>1, <2>2 DEF Unraced, FilesInMemory, GivenUp
  <2>5. RecordsAreOwn'
    BY <1>1, <2>1 DEF Unraced, RecordsAreOwn, Abandoned, IInv, TypeOK
  <2>6. GivenUp'
    BY <1>1, <2>1 DEF Unraced, GivenUp, Entry
  <2>7. AnswersAreStored'
    BY <1>1, <2>1 DEF Unraced, AnswersAreStored, Soiled, Labels
  <2> QED BY <2>1, <2>3, <2>4, <2>5, <2>6, <2>7 DEF Unraced, StoreReopens
<1> QED BY <1>2, <1>3, <1>4, <1>5 DEF IInv, Racing

LEMMA RemoveDelegationFileKeeps ==
  ASSUME IInv, NEW c \in Calls, RemoveDelegationFile(c) PROVE IInv'
<1>1. /\ phase = "up" /\ pc[c] = "cleanup" /\ pc'[c] = "forget"
      /\ \A d \in Calls \ {c} : pc'[d] = pc[d] /\ files'[d] = files[d]
      /\ files'[c] = None
      /\ UNCHANGED <<phase, threads, threadFiles, delegations, index, request, record, turn, answer,
                     raced, kept, crashes>>
  BY DEF RemoveDelegationFile, Step, Goto, IInv, TypeOK
<1>2. TypeOK'
  BY DEF RemoveDelegationFile, Step, Goto, IInv, TypeOK, Labels, InMemory
<1>3. UNCHANGED <<T, D>>
  BY <1>1 DEF T, D
<1> HIDE DEF T, D
<1>4. IndexIsCurrent'
  BY <1>1, <1>3, SameIndex
<1> QED BY <1>1, <1>2, <1>3, <1>4, GiveUpKeeps

LEMMA ForgetDelegationKeeps ==
  ASSUME IInv, NEW c \in Calls, ForgetDelegation(c) PROVE IInv'
<1>1. /\ phase = "up" /\ pc[c] = "forget" /\ pc'[c] = "drop" /\ \A d \in Calls \ {c} : pc'[d] = pc[d]
      /\ delegations' = RemoveFirst(delegations, c) /\ status' = [status EXCEPT ![c] = None]
      /\ index' = Rebuilt(delegations', threads)
      /\ UNCHANGED <<phase, threads, ready, threadFiles, files, request, record, turn, answer,
                     raced, kept, crashes>>
  BY DEF ForgetDelegation, Step, Goto, IInv, TypeOK
<1>2. /\ threads \in Seq(Calls) /\ IsInjective(threads) /\ request \in [Calls -> Requests]
      /\ delegations \in Seq(Calls) /\ IsInjective(delegations)
      /\ status \in [Calls -> Status \cup {None}]
      /\ \A d \in Calls : status[d] # None <=> d \in ToSet(delegations)
  BY DEF IInv, TypeOK, InMemory
<1>3. /\ delegations' \in Seq(Calls) /\ IsInjective(delegations')
      /\ ToSet(delegations') = ToSet(delegations) \ {c}
  BY <1>1, <1>2, RemoveKey
<1>4. /\ Indexes(index', ToSet(delegations'), ToSet(threads))
      /\ index' \in [requests : [Requests -> Calls \cup {None}], children : SUBSET Calls,
                     creates : [Requests -> Calls \cup {None}]]
  BY <1>1, <1>2, <1>3, RebuiltIndexes
<1>5. T' = T /\ D' = D \ {c} /\ IndexIsCurrent'
  BY <1>1, <1>3, <1>4 DEF T, D, IndexIsCurrent, Indexes, Apart
<1>6. TypeOK'
  <2>1. /\ status' \in [Calls -> Status \cup {None}]
        /\ \A d \in Calls : status'[d] # None <=> d \in ToSet(delegations')
    BY <1>1, <1>2, <1>3
  <2>2. pc' \in [Calls -> Settled \cup Labels]
        /\ UNCHANGED <<phase, threads, ready, threadFiles, files, request, record, made, turn, answer,
                       raced, kept, crashes, ioErrors>>
    BY DEF ForgetDelegation, Goto, IInv, TypeOK, Labels
  <2> QED BY <1>3, <1>4, <2>1, <2>2 DEF IInv, TypeOK, InMemory
<1> HIDE DEF T, D
<1> QED BY <1>1, <1>5, <1>6, GiveUpKeeps

LEMMA DropThreadKeeps == ASSUME IInv, NEW c \in Calls, DropThread(c) PROVE IInv'
<1>1. /\ phase = "up" /\ phase' = "up" /\ pc[c] = "drop" /\ pc'[c] = "failed"
      /\ \A d \in Calls \ {c} : pc'[d] = pc[d]
      /\ UNCHANGED <<delegations, status, files, request, record, turn, answer, raced, kept, crashes>>
  BY DEF DropThread, Step, Goto, IInv, TypeOK, store
<1>2. /\ threads \in Seq(Calls) /\ IsInjective(threads) /\ request \in [Calls -> Requests]
      /\ delegations \in Seq(Calls) /\ IsInjective(delegations) /\ ready \subseteq ToSet(threads)
      /\ threadFiles \in [Calls -> {"creating", "ready", None}]
  BY DEF IInv, TypeOK
<1>3. /\ threads' \in Seq(Calls) /\ IsInjective(threads') /\ ready' \subseteq ToSet(threads')
      /\ T' = T \ {c} /\ D' = D /\ IndexIsCurrent'
      /\ threadFiles' \in [Calls -> {"creating", "ready", None}] /\ threadFiles'[c] = None
      /\ \A d \in Calls \ {c} : threadFiles'[d] = threadFiles[d]
      /\ index' \in [requests : [Requests -> Calls \cup {None}], children : SUBSET Calls,
                     creates : [Requests -> Calls \cup {None}]]
  <2>1. CASE c \in ToSet(threads)
    <3>1. /\ threads' = RemoveFirst(threads, c) /\ ready' = ready \ {c}
          /\ threadFiles' = [threadFiles EXCEPT ![c] = None]
          /\ index' = Rebuilt(delegations, threads')
      BY <2>1 DEF DropThread
    <3>2. /\ threads' \in Seq(Calls) /\ IsInjective(threads') /\ ToSet(threads') = ToSet(threads) \ {c}
      BY <1>2, <3>1, RemoveKey
    <3>3. /\ Indexes(index', ToSet(delegations), ToSet(threads'))
          /\ index' \in [requests : [Requests -> Calls \cup {None}], children : SUBSET Calls,
                         creates : [Requests -> Calls \cup {None}]]
      BY <1>2, <3>1, <3>2, RebuiltIndexes
    <3>4. T' = T \ {c} /\ D' = D /\ IndexIsCurrent'
      BY <1>1, <3>2, <3>3 DEF T, D, IndexIsCurrent, Indexes, Apart
    <3> QED BY <1>2, <3>1, <3>2, <3>3, <3>4
  <2>2. CASE c \notin ToSet(threads)
    <3>1. UNCHANGED store
      BY <2>2 DEF DropThread
    <3>2. UNCHANGED <<T, D, index, threads, ready, threadFiles>> /\ T = T \ {c}
      BY <2>2, <3>1 DEF T, D, store
    <3>3. threadFiles[c] = None
      BY <1>1, <2>2 DEF IInv, Racing, Stored, T
    <3>4. IndexIsCurrent'
      BY <1>1, <3>2, SameIndex
    <3> QED BY <1>2, <3>2, <3>3, <3>4 DEF IInv, TypeOK
  <2> QED BY <2>1, <2>2
<1>4. TypeOK'
  <2>1. pc' \in [Calls -> Settled \cup Labels]
        /\ UNCHANGED <<phase, delegations, status, files, request, record, made, turn, answer, raced, kept,
                       crashes, ioErrors>>
    BY <1>1 DEF DropThread, Goto, IInv, TypeOK, Settled
  <2> QED BY <1>3, <2>1 DEF IInv, TypeOK, InMemory
<1> HIDE DEF T, D
<1>5. answer[c] # c
  BY <1>1 DEF IInv, Racing, LiveIsStored
<1>6. Stored'
  BY <1>1, <1>3 DEF IInv, Racing, Stored, Entry, Wrote, Provisioned, Answers
<1>7. TurnsAreOf'
  BY <1>1 DEF IInv, Racing, TurnsAreOf, Wrote, Answers
<1>8. LiveIsStored'
  BY <1>1, <1>3, <1>5 DEF IInv, Racing, LiveIsStored, Live, Started
<1>9. ASSUME Tidy' PROVE Unraced'
  <2>1. Unraced /\ turn[c] = "none"
    BY <1>1, <1>9 DEF IInv, Tidy
  <2>2. Active' = Active \ {c}
    BY <1>1 DEF Active, Settled
  <2>3. ~Entry(c) \/ c \in kept
    BY <1>1, <2>1 DEF Unraced, GivenUp
  <2>4. RequestsApart'
    BY <1>1, <1>3, <2>1, <2>2 DEF Unraced, RequestsApart, Apart, Entry
  <2>5. FilesInMemory'
    BY <1>1, <1>3, <2>1, <2>2, <2>3 DEF Unraced, FilesInMemory, Entry
  <2>6. RecordsAreOwn'
    BY <1>1, <1>3, <2>1 DEF Unraced, RecordsAreOwn, Abandoned, Entry, IInv, TypeOK
  <2>7. GivenUp'
    BY <1>1, <1>3, <2>1, <2>3 DEF Unraced, GivenUp, Entry
  <2>8. AnswersAreStored'
    BY <1>1, <1>3, <1>5, <2>1 DEF Unraced, AnswersAreStored, Soiled, Labels
  <2> QED BY <1>1, <2>4, <2>5, <2>6, <2>7, <2>8 DEF Unraced, StoreReopens
<1> QED BY <1>3, <1>4, <1>6, <1>7, <1>8, <1>9 DEF IInv, Racing

LEMMA FailDropThreadKeeps == ASSUME IInv, NEW c \in Calls, FailDropThread(c) PROVE IInv'
<1>1. /\ phase = "up" /\ phase' = "up" /\ pc[c] = "drop" /\ pc'[c] = "failed" /\ kept' = kept \cup {c}
      /\ \A d \in Calls \ {c} : pc'[d] = pc[d] /\ threadFiles'[d] = threadFiles[d]
      /\ threadFiles'[c] \in {threadFiles[c], None} /\ c \in ToSet(threads)
      /\ UNCHANGED <<threads, index, delegations, status, files, request, record, turn, answer, raced, crashes>>
  BY DEF FailDropThread, Step, Goto, IInv, TypeOK
<1>2. TypeOK'
  <2>1. pc' \in [Calls -> Settled \cup Labels] /\ threadFiles' \in [Calls -> {"creating", "ready", None}]
    BY DEF FailDropThread, Goto, IInv, TypeOK, Settled
  <2>2. ioErrors' \in 0..MaxIoErrors /\ kept' \subseteq Calls /\ UNCHANGED <<ready, made>>
    BY <1>1, DelegationAssumption DEF FailDropThread, IoError, IInv, TypeOK
  <2> QED BY <1>1, <2>1, <2>2 DEF IInv, TypeOK, InMemory
<1>3. UNCHANGED <<T, D>> /\ c \in T
  BY <1>1 DEF T, D
<1> HIDE DEF T, D
<1>4. answer[c] # c
  BY <1>1 DEF IInv, Racing, LiveIsStored
<1>5. Stored'
  BY <1>1, <1>3 DEF IInv, Racing, Stored, Entry, Wrote, Provisioned, Answers
<1>6. TurnsAreOf'
  BY <1>1 DEF IInv, Racing, TurnsAreOf, Wrote, Answers
<1>7. LiveIsStored'
  BY <1>1, <1>3, <1>4 DEF IInv, Racing, LiveIsStored, Live, Started
<1>8. IndexIsCurrent'
  BY <1>1, <1>3, SameIndex
<1>9. ASSUME Tidy' PROVE Unraced'
  <2>1. Unraced /\ turn[c] = "none"
    BY <1>1, <1>9 DEF IInv, Tidy
  <2>2. Active' = Active \ {c}
    BY <1>1 DEF Active, Settled
  <2>3. RequestsApart'
    BY <1>1, <1>3, <2>1, <2>2 DEF Unraced, RequestsApart, Apart, Entry
  <2>4. FilesInMemory'
    BY <1>1, <1>3, <2>1 DEF Unraced, FilesInMemory
  <2>5. RecordsAreOwn'
    BY <1>1, <1>3, <2>1 DEF Unraced, RecordsAreOwn, Abandoned, Entry, IInv, TypeOK
  <2>6. GivenUp'
    BY <1>1, <1>3, <2>1 DEF Unraced, GivenUp, Entry
  <2>7. AnswersAreStored'
    BY <1>1, <1>3, <1>4, <2>1 DEF Unraced, AnswersAreStored, Soiled, Labels
  <2> QED BY <1>1, <2>1, <2>3, <2>4, <2>5, <2>6, <2>7 DEF Unraced, StoreReopens
<1> QED BY <1>2, <1>5, <1>6, <1>7, <1>8, <1>9 DEF IInv, Racing

LEMMA CrashKeeps == ASSUME IInv, Crash PROVE IInv'
<1>1. /\ phase' = "down" /\ threads' = <<>> /\ delegations' = <<>> /\ crashes' = crashes + 1
      /\ \A c \in Calls : pc'[c] = IF c \in Active THEN "lost" ELSE pc[c]
      /\ \A c \in Calls : turn'[c] = IF turn[c] = "none" THEN "none" ELSE "done"
      /\ UNCHANGED <<threadFiles, files, request, record, answer, raced, kept>>
  BY DEF Crash
<1>2. T' = {} /\ D' = {}
  BY <1>1 DEF T, D, ToSet
<1>3. TypeOK'
  <2>1. crashes' \in 0..MaxCrashes
    BY DelegationAssumption DEF Crash, IInv, TypeOK
  <2>2. /\ threads' \in Seq(Calls) /\ IsInjective(threads') /\ ready' \subseteq ToSet(threads')
        /\ delegations' \in Seq(Calls) /\ IsInjective(delegations')
        /\ status' = [c \in Calls |-> None] /\ \A c \in Calls : c \notin ToSet(delegations')
    BY DEF Crash, IsInjective, ToSet
  <2>3. /\ pc' \in [Calls -> Settled \cup Labels]
        /\ turn' \in [Calls -> {"none", "running", "checked", "renamed", "done"}]
    BY DEF Crash, IInv, TypeOK, Settled
  <2> QED BY <1>1, <2>1, <2>2, <2>3 DEF Crash, IInv, TypeOK, InMemory
<1>4. crashes' # 0
  BY <1>1 DEF IInv, TypeOK
<1> HIDE DEF T, D
<1>5. /\ \A c \in Calls : Entry(c)' => Entry(c) /\ files[c] # None
      /\ \A c \in Calls : Wrote(c) => Wrote(c)'
      /\ \A c \in Calls : pc'[c] = "failed" <=> pc[c] = "failed"
  BY <1>1, <1>2 DEF Entry, Wrote, Answers, Active, Settled
<1>6. Stored'
  BY <1>1, <1>2, <1>5 DEF IInv, Racing, Stored, Provisioned, Answers, Active, Settled
<1>7. TurnsAreOf'
  BY <1>1, <1>5 DEF IInv, Racing, TurnsAreOf, Active, Settled
<1>8. LiveIsStored'
  BY <1>1 DEF IInv, Racing, LiveIsStored, Live, Started, Active, Settled
<1>9. IndexIsCurrent'
  BY <1>1 DEF IndexIsCurrent
<1>10. ASSUME Tidy' PROVE Unraced'
  <2>1. Unraced
    BY <1>1, <1>5, <1>10 DEF IInv, Tidy
  <2>2. Active' = {}
    BY <1>1 DEF Active, Settled
  <2>3. RequestsApart'
    BY <1>1, <1>2, <1>5, <2>1, <2>2 DEF Unraced, RequestsApart, Apart
  <2>4. RecordsAreOwn'
    BY <1>1, <1>5, <2>1 DEF Unraced, RecordsAreOwn, Abandoned, Active, Settled, IInv, TypeOK
  <2>5. GivenUp'
    BY <1>1, <1>2, <1>5, <2>1 DEF Unraced, GivenUp, Active, Settled
  <2> QED BY <1>1, <1>4, <2>3, <2>4, <2>5 DEF Unraced, FilesInMemory, AnswersAreStored, Soiled, StoreReopens
<1> QED BY <1>3, <1>6, <1>7, <1>8, <1>9, <1>10 DEF IInv, Racing

LEMMA InitializeKeeps == ASSUME IInv, Initialize PROVE IInv'
<1> DEFINE whole == {c \in Calls : threadFiles[c] = "ready"}
           found == {c \in Calls : files[c] # None}
<1>1. PICK thrs \in SetToSeqs(whole), dels \in SetToSeqs(found) :
        /\ threads' = thrs /\ delegations' = dels /\ index' = Rebuilt(dels, thrs)
        /\ phase' = IF Throws(dels, thrs) THEN "refused" ELSE "up"
  BY DEF Initialize
<1>2. /\ phase = "down" /\ ready' = whole /\ status' = files
      /\ threadFiles' = [c \in Calls |-> IF threadFiles[c] = "ready" THEN "ready" ELSE None]
      /\ UNCHANGED <<files, pc, request, record, made, turn, answer, raced, kept, crashes, ioErrors>>
  BY DEF Initialize, calls
<1>3. /\ thrs \in Seq(Calls) /\ IsInjective(thrs) /\ ToSet(thrs) = whole
      /\ dels \in Seq(Calls) /\ IsInjective(dels) /\ ToSet(dels) = found
  BY <1>1, ListOfSet
<1>4. /\ request \in [Calls -> Requests] /\ files \in [Calls -> Status \cup {None}] /\ "ready" # None
  BY DelegationAssumption DEF IInv, TypeOK
<1>5. /\ Throws(dels, thrs) <=> ~(Apart(found) /\ Apart(whole))
      /\ Indexes(index', found, whole)
      /\ index' \in [requests : [Requests -> Calls \cup {None}], children : SUBSET Calls,
                     creates : [Requests -> Calls \cup {None}]]
  <2> HIDE DEF whole, found
  <2>1. /\ Throws(dels, thrs) <=> ~(Apart(ToSet(dels)) /\ Apart(ToSet(thrs)))
        /\ Indexes(Rebuilt(dels, thrs), ToSet(dels), ToSet(thrs))
        /\ Rebuilt(dels, thrs) \in [requests : [Requests -> Calls \cup {None}], children : SUBSET Calls,
                                    creates : [Requests -> Calls \cup {None}]]
    BY <1>3, <1>4, RebuiltIndexes
  <2>2. index' = Rebuilt(dels, thrs) /\ ToSet(thrs) = whole /\ ToSet(dels) = found
    BY <1>1, <1>3
  <2> QED BY <2>1, <2>2
<1>6. T' = whole /\ D' = found
  BY <1>1, <1>3 DEF T, D
<1>7. IndexIsCurrent'
  BY <1>2, <1>5, <1>6 DEF IndexIsCurrent, Indexes, Apart
<1>8. TypeOK'
  <2>1. threads' \in Seq(Calls) /\ IsInjective(threads') /\ ready' \subseteq ToSet(threads')
    BY <1>1, <1>2, <1>3
  <2>2. /\ delegations' \in Seq(Calls) /\ IsInjective(delegations')
        /\ \A c \in Calls : status'[c] # None <=> c \in ToSet(delegations')
    BY <1>1, <1>2, <1>3
  <2>3. threadFiles' \in [Calls -> {"creating", "ready", None}] /\ phase' \in {"up", "down", "refused"}
    BY <1>1, <1>2
  <2> QED BY <1>2, <1>4, <1>5, <2>1, <2>2, <2>3 DEF IInv, TypeOK, InMemory
<1>9. phase' # "down" /\ (phase' = "refused" => ~(Apart(found) /\ Apart(whole)))
  BY <1>1, <1>5
<1>10. /\ \A c \in Calls : threadFiles'[c] # None <=> c \in whole
       /\ \A c \in whole : threadFiles[c] # None
       /\ whole \subseteq Calls
       /\ \A c \in Calls : Entry(c)' <=> Entry(c)
  BY <1>2, <1>4, <1>6 DEF Entry, IInv, Racing, Stored
<1> HIDE DEF T, D, whole
<1>11. Stored'
  BY <1>2, <1>6, <1>9, <1>10 DEF IInv, Racing, Stored, Wrote, Provisioned, Answers
<1>12. TurnsAreOf'
  BY <1>2, <1>9 DEF IInv, Racing, TurnsAreOf, Wrote, Answers
<1>13. LiveIsStored'
  BY <1>2, <1>6 DEF IInv, Racing, LiveIsStored, Live
<1>14. ASSUME Tidy' PROVE Unraced'
  <2>1. Unraced /\ Active' = Active
    BY <1>2, <1>14 DEF IInv, Tidy, Active
  <2>2. Apart(found) /\ Apart(whole)
    BY <1>10, <2>1 DEF Unraced, RequestsApart, Apart, Entry
  <2>3. RequestsApart'
    BY <1>2, <1>6, <1>10, <2>1 DEF Unraced, RequestsApart, Apart
  <2>4. FilesInMemory'
    BY <1>2, <1>6 DEF FilesInMemory
  <2>5. RecordsAreOwn'
    BY <1>2, <1>10, <2>1 DEF Unraced, RecordsAreOwn, Abandoned, IInv, TypeOK
  <2>6. GivenUp'
    BY <1>2, <1>6, <1>10, <2>1 DEF Unraced, GivenUp
  <2>7. crashes # 0
    BY <1>2, <2>1 DEF Unraced, AnswersAreStored, Soiled
  <2> QED BY <1>2, <1>9, <2>2, <2>3, <2>4, <2>5, <2>6, <2>7 DEF Unraced, AnswersAreStored, Soiled, StoreReopens
<1> QED BY <1>7, <1>8, <1>11, <1>12, <1>13, <1>14 DEF IInv, Racing

-----------------------------------------------------------------------------
(* The theorems. *)

LEMMA InitIInv == Init => IInv
<1> SUFFICES ASSUME Init PROVE IInv
  OBVIOUS
<1>1. T = {} /\ D = {}
  BY DEF Init, T, D, ToSet
<1>2. TypeOK
  <2>1. /\ threads \in Seq(Calls) /\ IsInjective(threads) /\ ready \subseteq ToSet(threads)
        /\ delegations \in Seq(Calls) /\ IsInjective(delegations)
        /\ \A c \in Calls : status[c] # None <=> InMemory(c)
    BY DEF Init, IsInjective, ToSet, InMemory
  <2>2. crashes \in 0..MaxCrashes /\ ioErrors \in 0..MaxIoErrors
    BY DelegationAssumption DEF Init
  <2>3. index \in [requests : [Requests -> Calls \cup {None}], children : SUBSET Calls,
                   creates : [Requests -> Calls \cup {None}]]
    BY DEF Init
  <2> QED BY <2>1, <2>2, <2>3 DEF Init, TypeOK, Settled
<1> HIDE DEF T, D
<1>3. Racing
  <2>1. Stored
    BY <1>1 DEF Init, Stored, Entry
  <2>2. TurnsAreOf
    BY DEF Init, TurnsAreOf
  <2>3. LiveIsStored
    BY DelegationAssumption DEF Init, LiveIsStored, Live, Started
  <2>4. IndexIsCurrent
    BY <1>1 DEF Init, IndexIsCurrent, Indexes
  <2> QED BY <2>1, <2>2, <2>3, <2>4 DEF Racing
<1>4. Active = {}
  BY DEF Init, Active, Settled
<1>5. Unraced
  BY <1>1, <1>4, DelegationAssumption DEF Init, Unraced, RequestsApart, Apart, FilesInMemory, RecordsAreOwn, Abandoned, GivenUp,
     AnswersAreStored, StoreReopens, Entry, Labels
<1> QED BY <1>2, <1>3, <1>5 DEF IInv

LEMMA StepKeeps == IInv /\ [Next]_vars => IInv'
<1> SUFFICES ASSUME IInv, [Next]_vars PROVE IInv'
  OBVIOUS
<1>1. CASE UNCHANGED vars
  BY <1>1 DEF vars, store, calls, IInv, TypeOK, InMemory, Racing, Stored, TurnsAreOf, LiveIsStored, IndexIsCurrent, Indexes,
     Tidy, Unraced, RequestsApart, FilesInMemory, RecordsAreOwn, Abandoned, GivenUp, AnswersAreStored, Soiled,
     StoreReopens, Apart, Entry,
     Wrote, Provisioned, Answers, Live, Active, T, D
<1>2. CASE Next
  BY <1>2, LookupKeeps, ProvisionKeeps, DelegateKeeps, WriteDelegationKeeps, OpenKeeps, CommitNativeKeeps,
     StartTurnKeeps, PersistIdentityKeeps, AwaitIdentityKeeps, CheckRunningKeeps, RenameRunningKeeps,
     CommitRunningKeeps, EndTurnKeeps, RenameCompletedKeeps, CommitCompletedKeeps, RemoveDelegationFileKeeps,
     ForgetDelegationKeeps, DropThreadKeeps, FailWriteKeeps, FailRemoveDelegationKeeps, FailDropThreadKeeps,
     CrashKeeps, InitializeKeeps DEF Next
<1> QED BY <1>1, <1>2

\* Every reachable state satisfies the invariant on which the theorems below rest.
THEOREM Invariance == Spec => []IInv
<1> QED BY InitIInv, StepKeeps, PTL DEF Spec

\* Every reachable state of coordinator and Store is well typed; the Maps of the Store
\* hold a key once, and exactly the Delegations in memory have a status.
THEOREM TypeCorrect == Spec => []TypeOK
<1>1. IInv => TypeOK
  BY DEF IInv
<1> QED BY <1>1, Invariance, PTL

\* Of the calls with one request, however they race, fail and retry, at most one is told
\* that it started a child (HarnessDelegationCoordinator.start).
THEOREM OneChildForARequest == Spec => []OneStartPerRequest
<1>1. IInv => OneStartPerRequest
  BY DEF IInv, Racing, LiveIsStored, Live, OneStartPerRequest
<1> QED BY <1>1, Invariance, PTL

\* What the code guards against includes that no start failed after its Turn began.
LEMMA OrderlyIsTidy == Orderly => Tidy
  BY DEF Orderly, Tidy

\* In an orderly history without a crash an answer names a child Thread and a Delegation
\* that are stored, unless a start of the same request failed whose own cleanup did.
THEOREM AnswersNameStored == Spec => []AnswerNamesStoredChild
<1>1. IInv => AnswerNamesStoredChild
  <2> SUFFICES ASSUME IInv, Orderly, crashes = 0, NEW c \in Calls, pc[c] = "answered", ~Soiled(request[c])
               PROVE  answer[c] \in ToSet(threads) \cap ToSet(delegations)
    BY DEF AnswerNamesStoredChild
  <2>1. AnswersAreStored
    BY OrderlyIsTidy DEF IInv, Unraced
  <2>2. /\ answer[c] \in Calls /\ answer[answer[c]] = answer[c] /\ phase = "up"
        /\ ~Soiled(request[answer[c]])
    BY <2>1 DEF AnswersAreStored
  <2>3. answer[c] \in T /\ answer[c] \in D
    BY <2>1, <2>2 DEF AnswersAreStored, IInv, Racing, LiveIsStored, Live
  <2> QED BY <2>3 DEF T, D
<1> QED BY <1>1, Invariance, PTL

\* In an orderly history a start that failed leaves neither a Thread nor a Delegation, in
\* memory or on disk, unless its own removeDelegation or removeThread was rejected: what
\* earlier ones left behind does not matter.
THEOREM FailuresLeaveNothing == Spec => []RefusedStartLeavesNothing
<1>1. IInv => RefusedStartLeavesNothing
  <2> SUFFICES ASSUME IInv, Orderly, Quiet, NEW c \in Calls, pc[c] = "failed", c \notin kept
               PROVE  LeftNothing(c)
    BY DEF RefusedStartLeavesNothing
  <2>1. turn[c] = "none" /\ GivenUp
    BY OrderlyIsTidy DEF Orderly, IInv, Unraced
  <2> QED BY <2>1 DEF GivenUp, Entry, T, D, LeftNothing
<1> QED BY <1>1, Invariance, PTL

\* In an orderly history, whatever failed, crashed and was retried, initialize never finds
\* two records of one request, and the Store opens.
THEOREM RetriesReopen == Spec => []RetriedStoreReopens
<1>1. IInv => RetriedStoreReopens
  BY OrderlyIsTidy DEF IInv, Unraced, RetriedStoreReopens
<1> QED BY <1>1, Invariance, PTL
=============================================================================
