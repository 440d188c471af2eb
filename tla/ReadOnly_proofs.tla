-------------------------- MODULE ReadOnly_proofs --------------------------
(***************************************************************************)
(* Theorems of the two services that read a Workspace which may change     *)
(* under them, and write nothing to it: delegation to read-only workers    *)
(* and the knowledge index.  They share no state; each has its section.    *)
(***************************************************************************)
EXTENDS Workers, KnowledgeIndex, SequenceTheorems, FiniteSetTheorems, TLAPS

(***************************************************************************)
(* Workers: over a Run and its continuations no task is given twice on the *)
(* same source, and a call leaves no worker running and none unpaid.  A    *)
(* call in progress carries the rest of the first argument: the tasks it   *)
(* has yet to admit are new to the chain and to each other, and the        *)
(* Session does not go on to another Run meanwhile.                        *)
(***************************************************************************)
WorkerStatus == {"running", "reported", "failed"}

Kids == [run : Nat, chain : Nat, task : Goals, content : Sources, started : BOOLEAN,
         status : WorkerStatus, usage : {0, 1}, settled : BOOLEAN]

WorkersType ==
  /\ sourceNow \in Sources /\ kids \in Seq(Kids)
  /\ head \in [no : Nat, chain : Nat, status : {"running", "over", "parked", "crashed"},
               delegated : Nat, usage : Nat]
  /\ call \in [pc : {"idle", "copying", "admitting", "announcing", "waiting", "settling"},
               goals : Seq(Goals), snaps : Seq(Sources), left : Nat, stop : BOOLEAN]

Signature(i) == Fingerprint(call.goals[i], call.snaps[i])
ToAdmit == (Len(call.goals) - call.left + 1)..Len(call.goals)

\* While a call admits, what is left to admit is new and has no duplicates.
CallInv ==
  /\ call.pc # "idle" => head.status = "running"
  /\ call.pc \in {"admitting", "announcing"} =>
       /\ Len(call.snaps) = Len(call.goals) /\ call.left <= Len(call.goals)
       /\ \A i \in ToAdmit : /\ Signature(i) \notin DelegationHistory
                             /\ \A j \in ToAdmit : i # j => Signature(i) # Signature(j)

WorkersInv == WorkersType /\ CallInv /\ DelegatedOnce

\* As many signatures as tasks: then all are different.
LEMMA AllDifferent ==
  ASSUME NEW n \in Nat, NEW f, Cardinality({f[i] : i \in 1..n}) >= n,
         NEW i \in 1..n, NEW j \in 1..n, i # j
  PROVE  f[i] # f[j]
<1> SUFFICES ASSUME f[i] = f[j] PROVE FALSE
  OBVIOUS
<1> DEFINE S == (1..n) \ {j}
           T == {f[k] : k \in 1..n}
           g == [k \in S |-> f[k]]
<1>1. IsFiniteSet(S) /\ Cardinality(S) = n - 1
  <2>1. IsFiniteSet(1..n) /\ Cardinality(1..n) = n
    BY FS_Interval
  <2> QED BY <2>1, FS_RemoveElement
<1>2. g \in Surjection(S, T)
  <2>1. \A t \in T : \E k \in S : g[k] = t
    BY DEF S
  <2> QED BY <2>1 DEF Surjection
<1>3. Cardinality(T) <= n - 1 /\ Cardinality(T) \in Nat
  <2> HIDE DEF S, T, g
  <2> QED BY <1>1, <1>2, FS_Surjection, FS_CardinalityType
<1> QED BY <1>3

\* Children that are not admitted or replaced keep what the property is about.
LEMMA SameAdmissions ==
  ASSUME WorkersInv, kids' \in Seq(Kids), Len(kids') = Len(kids), head'.chain = head.chain,
         \A i \in 1..Len(kids) : /\ kids'[i].chain = kids[i].chain /\ kids'[i].task = kids[i].task
                                 /\ kids'[i].content = kids[i].content
  PROVE  DelegatedOnce' /\ DelegationHistory' = DelegationHistory
<1>1. DOMAIN kids = 1..Len(kids) /\ DOMAIN kids' = 1..Len(kids)
  BY LenProperties DEF WorkersInv, WorkersType
<1>2. DelegatedOnce'
  BY <1>1 DEF WorkersInv, DelegatedOnce, Fingerprint
<1>3. DelegationHistory' = DelegationHistory
  BY <1>1 DEF DelegationHistory, Fingerprint
<1> QED BY <1>2, <1>3

\* Steps outside an admission: the call neither begins nor goes on admitting.
LEMMA QuietStep ==
  ASSUME WorkersInv, WorkersType', Len(kids') = Len(kids), head'.chain = head.chain,
         \A i \in 1..Len(kids) : /\ kids'[i].chain = kids[i].chain /\ kids'[i].task = kids[i].task
                                 /\ kids'[i].content = kids[i].content,
         call'.pc \notin {"admitting", "announcing"} \/ call' = call,
         call'.pc # "idle" => head'.status = "running"
  PROVE  WorkersInv'
<1>1. DelegatedOnce' /\ DelegationHistory' = DelegationHistory
  BY SameAdmissions DEF WorkersType
<1>2. CallInv'
  <2>1. CASE call'.pc \notin {"admitting", "announcing"}
    BY <2>1 DEF CallInv
  <2>2. CASE call' = call
    <3>1. ToAdmit' = ToAdmit /\ \A i : Signature(i)' = Signature(i)
      BY <2>2 DEF ToAdmit, Signature, Fingerprint
    <3> QED BY <1>1, <2>2, <3>1 DEF CallInv, WorkersInv
  <2> QED BY <2>1, <2>2
<1> QED BY <1>1, <1>2 DEF WorkersInv

\* A child's record rewritten.
LEMMA RewriteKid ==
  ASSUME WorkersType, NEW i \in 1..Len(kids), NEW e \in Kids, kids' = [kids EXCEPT ![i] = e],
         e.chain = kids[i].chain, e.task = kids[i].task, e.content = kids[i].content
  PROVE  /\ kids' \in Seq(Kids) /\ Len(kids') = Len(kids)
         /\ \A k \in 1..Len(kids) : /\ kids'[k].chain = kids[k].chain /\ kids'[k].task = kids[k].task
                                    /\ kids'[k].content = kids[k].content
BY ExceptSeq DEF WorkersType

\* A child of the list has the type of a child.
LEMMA KidOf ==
  ASSUME WorkersType, NEW i \in DOMAIN kids
  PROVE  i \in 1..Len(kids) /\ kids[i] \in Kids
BY LenProperties, ElementOfSeq DEF WorkersType

\* Edits of the source, and the Runs of the Session one after another.
LEMMA SourceAndRuns ==
  ASSUME WorkersInv, EditSource \/ EndRun \/ NextRun
  PROVE  WorkersInv'
<1>1. CASE EditSource
  <2>1. WorkersType'
    BY <1>1 DEF EditSource, WorkersInv, WorkersType
  <2> QED BY <1>1, <2>1, QuietStep DEF EditSource, WorkersInv, CallInv
<1>2. CASE EndRun
  <2>1. WorkersType' /\ head'.chain = head.chain
    BY <1>2 DEF EndRun, WorkersInv, WorkersType
  <2> QED BY <1>2, <2>1, QuietStep DEF EndRun, WorkersInv, CallInv
<1>3. CASE NextRun
  <2>1. WorkersType' /\ call.pc = "idle"
    BY <1>3 DEF NextRun, FirstOf, WorkersInv, WorkersType, CallInv
  <2> QED BY <1>3, <2>1 DEF NextRun, WorkersInv, CallInv, DelegatedOnce
<1> QED BY <1>1, <1>2, <1>3

\* A call begins and copies the source.
LEMMA CallBegins ==
  ASSUME WorkersInv, (\E goals \in Batches : Delegate(goals)) \/ CopySource
  PROVE  WorkersInv'
<1>1. CASE \E goals \in Batches : Delegate(goals)
  <2>1. PICK goals \in Batches : Delegate(goals)
    BY <1>1
  <2>2. goals \in Seq(Goals)
    <3>1. PICK n \in 1..MaxTasks : goals \in [1..n -> Goals]
      BY DEF Batches
    <3> QED BY <3>1, SeqDef, WorkerAssumption
  <2>3. WorkersType'
    <3>1. call' = [pc |-> "copying", goals |-> goals, snaps |-> <<>>, left |-> 0, stop |-> FALSE]
      BY <2>1 DEF Delegate, NoCall
    <3>2. <<>> \in Seq(Sources)
      BY EmptySeq
    <3>3. UNCHANGED <<sourceNow, head, kids>>
      BY <2>1 DEF Delegate
    <3> QED BY <2>2, <3>1, <3>2, <3>3 DEF WorkersInv, WorkersType
  <2> QED BY <2>1, <2>3, QuietStep DEF Delegate, NoCall, WorkersInv, WorkersType
<1>2. CASE CopySource
  <2>1. NoCall \in [pc : {"idle"}, goals : Seq(Goals), snaps : Seq(Sources), left : Nat, stop : BOOLEAN]
    BY EmptySeq DEF NoCall
  <2>2. Append(call.snaps, Snapshot) \in Seq(Sources)
    BY AppendProperties DEF WorkersInv, WorkersType, Snapshot
  <2>3. WorkersType' /\ call'.pc \in {"idle", "copying"}
    BY <1>2, <2>1, <2>2 DEF CopySource, WorkersInv, WorkersType
  <2> QED BY <1>2, <2>3, QuietStep DEF CopySource, WorkersInv, CallInv
<1> QED BY <1>1, <1>2

\* The check before the admissions: new to the chain, and as many signatures as tasks.
LEMMA CheckStep ==
  ASSUME WorkersInv, CheckHistory
  PROVE  WorkersInv'
<1> DEFINE n == Len(call.goals)
           f == [i \in 1..n |-> Signature(i)]
           signatures == {Signature(i) : i \in DOMAIN call.goals}
           refused == signatures \cap DelegationHistory # {} \/ Cardinality(signatures) < n
<1>1. n \in Nat /\ DOMAIN call.goals = 1..n /\ UNCHANGED <<sourceNow, kids>> /\ call.pc = "copying"
      /\ Len(call.snaps) = n
  BY LenProperties DEF CheckHistory, WorkersInv, WorkersType
<1>2. CASE refused
  <2>1. call' = [pc |-> "idle", goals |-> <<>>, snaps |-> <<>>, left |-> 0, stop |-> FALSE]
        /\ head' = head
    BY <1>2 DEF CheckHistory, NoCall, Signature
  <2>2. <<>> \in Seq(Sources) /\ <<>> \in Seq(Goals)
    BY EmptySeq
  <2>3. WorkersType'
    BY <1>1, <2>1, <2>2 DEF WorkersInv, WorkersType
  <2> QED BY <1>1, <2>1, <2>3, QuietStep
<1>3. CASE ~ refused
  <2>1. /\ call' = [call EXCEPT !.pc = "admitting", !.left = n]
        /\ head' = [head EXCEPT !.delegated = @ + n]
    BY <1>3 DEF CheckHistory, Signature
  <2>2. /\ call'.pc = "admitting" /\ call'.left = n /\ call'.goals = call.goals
        /\ call'.snaps = call.snaps /\ head'.chain = head.chain /\ head'.status = head.status
    BY <2>1 DEF WorkersInv, WorkersType
  <2>3. WorkersType'
    <3> HIDE DEF n
    <3>1. head.delegated + n \in Nat
      BY <1>1 DEF WorkersInv, WorkersType
    <3> QED BY <1>1, <2>1, <3>1 DEF WorkersInv, WorkersType
  <2>4. DelegatedOnce' /\ DelegationHistory' = DelegationHistory
    BY <1>1, <2>2, SameAdmissions DEF WorkersInv, WorkersType
  <2>5. ToAdmit' = 1..n /\ \A i : Signature(i)' = Signature(i)
    BY <1>1, <2>2 DEF ToAdmit, Signature, Fingerprint
  <2>6. \A i \in 1..n : Signature(i) \notin DelegationHistory
    BY <1>1, <1>3
  <2>7. \A i, j \in 1..n : i # j => Signature(i) # Signature(j)
    <3>1. signatures = {f[i] : i \in 1..n}
      BY <1>1
    <3>2. Cardinality(signatures) >= n
      <4>1. IsFiniteSet(1..n)
        BY <1>1, FS_Interval
      <4>2. f \in Surjection(1..n, signatures)
        BY <3>1 DEF Surjection
      <4>3. Cardinality(signatures) \in Nat
        <5> HIDE DEF signatures, f, n
        <5> QED BY <4>1, <4>2, FS_Surjection, FS_CardinalityType
      <4> QED BY <1>1, <1>3, <4>3
    <3>3. ASSUME NEW i \in 1..n, NEW j \in 1..n, i # j
          PROVE  f[i] # f[j]
      <4> HIDE DEF f, n, signatures
      <4> QED BY <1>1, <3>1, <3>2, <3>3, AllDifferent
    <3> QED BY <3>3
  <2>8. CallInv'
    BY <1>1, <2>2, <2>4, <2>5, <2>6, <2>7 DEF CallInv, WorkersInv
  <2> QED BY <2>3, <2>4, <2>8 DEF WorkersInv
<1> QED BY <1>2, <1>3

\* An admission takes the first of what is left; the rest stays new.
LEMMA AdmitStep ==
  ASSUME WorkersInv, AdmitWorker
  PROVE  WorkersInv'
<1> DEFINE i == Len(call.goals) - call.left + 1
           n == Len(kids)
           e == [run |-> head.no, chain |-> head.chain, task |-> call.goals[i],
                 content |-> call.snaps[i], started |-> FALSE, status |-> "running",
                 usage |-> 0, settled |-> FALSE]
<1>1. /\ call.pc = "admitting" /\ call.left > 0 /\ kids' = Append(kids, e)
      /\ call' = [call EXCEPT !.pc = "announcing", !.left = @ - 1] /\ UNCHANGED <<sourceNow, head>>
  BY DEF AdmitWorker
<1>2. /\ call.left \in Nat /\ Len(call.goals) \in Nat /\ call.left <= Len(call.goals)
      /\ Len(call.snaps) = Len(call.goals) /\ i \in 1..Len(call.goals) /\ i \in ToAdmit
  BY <1>1, LenProperties DEF WorkersInv, WorkersType, CallInv, ToAdmit
<1>3. e \in Kids
  <2>1. call.goals[i] \in Goals /\ call.snaps[i] \in Sources
    <3> HIDE DEF i
    <3> QED BY <1>2, ElementOfSeq DEF WorkersInv, WorkersType
  <2>2. head.no \in Nat /\ head.chain \in Nat
    BY DEF WorkersInv, WorkersType
  <2> HIDE DEF i
  <2> QED BY <2>1, <2>2 DEF Kids, WorkerStatus
<1>4. /\ kids' \in Seq(Kids) /\ Len(kids') = n + 1 /\ n \in Nat /\ kids'[n + 1] = e
      /\ DOMAIN kids = 1..n /\ DOMAIN kids' = 1..(n + 1) /\ \A k \in 1..n : kids'[k] = kids[k]
  <2> HIDE DEF e
  <2>1. kids \in Seq(Kids)
    BY DEF WorkersInv, WorkersType
  <2>2. kids' \in Seq(Kids) /\ Len(kids') = n + 1 /\ n \in Nat
    BY <1>1, <1>3, <2>1, AppendProperties, LenProperties
  <2> QED BY <1>1, <1>3, <2>1, <2>2, AppendProperties, LenProperties
<1>5. /\ call'.pc = "announcing" /\ call'.left = call.left - 1 /\ call'.goals = call.goals
      /\ call'.snaps = call.snaps
  BY <1>1 DEF WorkersInv, WorkersType
<1>6. WorkersType'
  <2>1. call.left - 1 \in Nat
    BY <1>1, <1>2
  <2> QED BY <1>1, <1>4, <2>1 DEF WorkersInv, WorkersType
<1>7. /\ e.chain = head.chain /\ Fingerprint(e.task, e.content) = Signature(i)
      /\ Signature(i) \notin DelegationHistory
  BY <1>1, <1>2 DEF Signature, WorkersInv, CallInv
<1>8. DelegatedOnce'
  <2> HIDE DEF e, i
  <2>1. \A k \in 1..n : kids[k].chain = head.chain
                          => Fingerprint(kids[k].task, kids[k].content) # Signature(i)
    BY <1>4, <1>7 DEF DelegationHistory
  <2>2. ASSUME NEW a \in 1..(n + 1), NEW b \in 1..(n + 1), a # b, kids'[a].chain = kids'[b].chain
        PROVE  Fingerprint(kids'[a].task, kids'[a].content) # Fingerprint(kids'[b].task, kids'[b].content)
    <3>1. CASE a \in 1..n /\ b \in 1..n
      BY <1>4, <2>2, <3>1 DEF WorkersInv, DelegatedOnce
    <3>2. CASE a = n + 1 /\ b \in 1..n
      BY <1>4, <1>7, <2>1, <2>2, <3>2
    <3>3. CASE a \in 1..n /\ b = n + 1
      BY <1>4, <1>7, <2>1, <2>2, <3>3
    <3> QED BY <1>4, <2>2, <3>1, <3>2, <3>3
  <2> QED BY <1>4, <2>2 DEF DelegatedOnce, Fingerprint
<1>9. CallInv'
  <2>1. ToAdmit' = ToAdmit \ {i} /\ \A k : Signature(k)' = Signature(k)
    BY <1>2, <1>5 DEF ToAdmit, Signature, Fingerprint
  <2>2. DelegationHistory' \subseteq DelegationHistory \cup {Signature(i)}
    <3> HIDE DEF e, i
    <3> QED BY <1>1, <1>4, <1>7 DEF DelegationHistory, Fingerprint
  <2>3. \A k \in ToAdmit : /\ Signature(k) \notin DelegationHistory
                           /\ \A j \in ToAdmit : k # j => Signature(k) # Signature(j)
    BY <1>1 DEF WorkersInv, CallInv
  <2>4. \A k \in ToAdmit' : /\ Signature(k)' \notin DelegationHistory'
                            /\ \A j \in ToAdmit' : k # j => Signature(k)' # Signature(j)'
    <3> HIDE DEF i
    <3> QED BY <1>2, <2>1, <2>2, <2>3
  <2>5. call'.left <= Len(call'.goals) /\ Len(call'.snaps) = Len(call'.goals)
    BY <1>2, <1>5
  <2>6. head'.status = "running"
    BY <1>1 DEF WorkersInv, CallInv
  <2> QED BY <2>4, <2>5, <2>6 DEF CallInv
<1> QED BY <1>6, <1>8, <1>9 DEF WorkersInv

\* worker.started changes nothing of what was admitted or is left.
LEMMA AnnounceStep ==
  ASSUME WorkersInv, AnnounceWorker
  PROVE  WorkersInv'
<1> DEFINE n == Len(kids)
           e == [kids[n] EXCEPT !.started = TRUE]
<1>1. /\ call.pc = "announcing" /\ kids' = [kids EXCEPT ![n].started = TRUE]
      /\ call' = [call EXCEPT !.pc = IF call.left > 0 THEN "admitting" ELSE "waiting"]
      /\ UNCHANGED <<sourceNow, head>>
  BY DEF AnnounceWorker
<1>2. /\ kids' \in Seq(Kids) /\ Len(kids') = Len(kids)
      /\ \A k \in 1..Len(kids) : /\ kids'[k].chain = kids[k].chain /\ kids'[k].task = kids[k].task
                                 /\ kids'[k].content = kids[k].content
  <2>1. n \in Nat /\ DOMAIN kids = 1..n /\ kids \in Seq(Kids) /\ WorkersType
    BY LenProperties DEF WorkersInv, WorkersType
  <2>2. CASE n = 0
    <3>1. kids' = kids
      BY <1>1, <2>1, <2>2
    <3> QED BY <2>1, <3>1
  <2>3. CASE n # 0
    <3>1. n \in 1..n /\ kids[n] \in Kids
      BY <2>1, <2>3, ElementOfSeq
    <3>2. /\ e \in Kids /\ e.chain = kids[n].chain /\ e.task = kids[n].task
          /\ e.content = kids[n].content
      BY <3>1 DEF Kids
    <3>3. kids' = [kids EXCEPT ![n] = e]
      BY <1>1
    <3> HIDE DEF e
    <3> QED BY <2>1, <3>1, <3>2, <3>3, RewriteKid
  <2> QED BY <2>2, <2>3
<1>3. /\ call'.left = call.left /\ call'.goals = call.goals /\ call'.snaps = call.snaps
  BY <1>1 DEF WorkersInv, WorkersType
<1>4. WorkersType'
  BY <1>1, <1>2 DEF WorkersInv, WorkersType
<1>5. DelegatedOnce' /\ DelegationHistory' = DelegationHistory
  BY <1>1, <1>2, SameAdmissions
<1>6. ToAdmit' = ToAdmit /\ \A k : Signature(k)' = Signature(k)
  BY <1>3 DEF ToAdmit, Signature, Fingerprint
<1>7. CallInv'
  BY <1>1, <1>3, <1>5, <1>6 DEF WorkersInv, CallInv
<1> QED BY <1>4, <1>5, <1>7 DEF WorkersInv

\* A child ends, or is settled.
LEMMA ChildSteps ==
  ASSUME WorkersInv, (\E i \in DOMAIN kids : WorkerEnds(i)) \/ SettleWorker
  PROVE  WorkersInv'
<1>1. CASE \E i \in DOMAIN kids : WorkerEnds(i)
  <2>1. PICK i \in DOMAIN kids, outcome \in Outcomes :
          /\ kids' = [kids EXCEPT ![i].status = outcome[1], ![i].usage = outcome[2]]
          /\ UNCHANGED <<sourceNow, head, call, workerUsed>>
    BY <1>1 DEF WorkerEnds
  <2> DEFINE e == [kids[i] EXCEPT !.status = outcome[1], !.usage = outcome[2]]
  <2>2. i \in 1..Len(kids) /\ kids[i] \in Kids
    BY KidOf DEF WorkersInv
  <2>3. outcome[1] \in WorkerStatus /\ outcome[2] \in {0, 1}
    BY DEF Outcomes, WorkerStatus
  <2>4. /\ e \in Kids /\ e.chain = kids[i].chain /\ e.task = kids[i].task
        /\ e.content = kids[i].content
    BY <2>2, <2>3 DEF Kids
  <2>5. kids' = [kids EXCEPT ![i] = e]
    BY <2>1
  <2>6. /\ kids' \in Seq(Kids) /\ Len(kids') = Len(kids)
        /\ \A k \in 1..Len(kids) : /\ kids'[k].chain = kids[k].chain /\ kids'[k].task = kids[k].task
                                   /\ kids'[k].content = kids[k].content
    <3> HIDE DEF e
    <3> QED BY <2>2, <2>4, <2>5, RewriteKid DEF WorkersInv
  <2>7. WorkersType'
    BY <2>1, <2>6 DEF WorkersInv, WorkersType
  <2> QED BY <2>1, <2>6, <2>7, QuietStep DEF WorkersInv, CallInv
<1>2. CASE SettleWorker
  <2>1. PICK i \in Unsettled : /\ kids' = [kids EXCEPT ![i].settled = TRUE]
                               /\ head' = [head EXCEPT !.usage = @ + kids[i].usage]
                               /\ UNCHANGED <<sourceNow, call, workerUsed>>
    BY <1>2 DEF SettleWorker
  <2> DEFINE e == [kids[i] EXCEPT !.settled = TRUE]
  <2>2. i \in 1..Len(kids) /\ kids[i] \in Kids
    BY KidOf DEF WorkersInv, Unsettled, Own
  <2>3. /\ e \in Kids /\ e.chain = kids[i].chain /\ e.task = kids[i].task
        /\ e.content = kids[i].content
    BY <2>2 DEF Kids
  <2>4. kids' = [kids EXCEPT ![i] = e]
    BY <2>1
  <2>5. /\ kids' \in Seq(Kids) /\ Len(kids') = Len(kids)
        /\ \A k \in 1..Len(kids) : /\ kids'[k].chain = kids[k].chain /\ kids'[k].task = kids[k].task
                                   /\ kids'[k].content = kids[k].content
    <3> HIDE DEF e
    <3> QED BY <2>2, <2>3, <2>4, RewriteKid DEF WorkersInv
  <2>6. head.usage + kids[i].usage \in Nat
    <3>1. kids[i].usage \in Nat
      BY <2>2 DEF Kids
    <3>2. head.usage \in Nat
      BY DEF WorkersInv, WorkersType
    <3> QED BY <3>1, <3>2
  <2>7. WorkersType' /\ head'.chain = head.chain /\ head'.status = head.status
    BY <2>1, <2>5, <2>6 DEF WorkersInv, WorkersType
  <2> QED BY <2>1, <2>5, <2>7, QuietStep DEF WorkersInv, CallInv
<1> QED BY <1>1, <1>2

\* The call stops waiting, is cancelled, or ends.
LEMMA CallEnds ==
  ASSUME WorkersInv, StopWaiting \/ CancelCall \/ EndCall
  PROVE  WorkersInv'
<1>1. CASE StopWaiting
  <2>1. WorkersType' /\ call'.pc = "settling" /\ UNCHANGED <<kids, head>> /\ call.pc = "waiting"
    BY <1>1 DEF StopWaiting, WorkersInv, WorkersType
  <2> QED BY <2>1, QuietStep DEF WorkersInv, CallInv
<1>2. CASE CancelCall
  <2>1. WorkersType' /\ call'.pc = "settling" /\ UNCHANGED <<kids, head>> /\ call.pc # "idle"
    BY <1>2 DEF CancelCall, WorkersInv, WorkersType
  <2> QED BY <2>1, QuietStep DEF WorkersInv, CallInv
<1>3. CASE EndCall
  <2>1. call' = [pc |-> "idle", goals |-> <<>>, snaps |-> <<>>, left |-> 0, stop |-> FALSE]
    BY <1>3 DEF EndCall, NoCall
  <2>2. <<>> \in Seq(Sources) /\ <<>> \in Seq(Goals)
    BY EmptySeq
  <2>3. head' \in [no : Nat, chain : Nat, status : {"running", "over", "parked", "crashed"},
                   delegated : Nat, usage : Nat]
        /\ head'.chain = head.chain /\ UNCHANGED <<sourceNow, kids>>
    BY <1>3 DEF EndCall, WorkersInv, WorkersType
  <2>4. WorkersType'
    BY <2>1, <2>2, <2>3 DEF WorkersInv, WorkersType
  <2> QED BY <2>1, <2>3, <2>4, QuietStep
<1> QED BY <1>1, <1>2, <1>3

\* The start that follows a crash parks every child; what was admitted stays admitted.
LEMMA CrashStep ==
  ASSUME WorkersInv, CrashWorkers
  PROVE  WorkersInv'
<1> DEFINE n == Len(kids)
<1>1. call' = [pc |-> "idle", goals |-> <<>>, snaps |-> <<>>, left |-> 0, stop |-> FALSE]
  BY DEF CrashWorkers, NoCall
<1>2. <<>> \in Seq(Sources) /\ <<>> \in Seq(Goals)
  BY EmptySeq
<1>3. n \in Nat /\ DOMAIN kids = 1..n /\ \A k \in 1..n : kids[k] \in Kids
  BY LenProperties, ElementOfSeq DEF WorkersInv, WorkersType
<1>4. \A k \in 1..n : /\ kids'[k] \in Kids
                      /\ kids'[k].chain = kids[k].chain /\ kids'[k].task = kids[k].task
                      /\ kids'[k].content = kids[k].content
  BY <1>3 DEF CrashWorkers, Kids, WorkerStatus
<1>5. kids' \in [1..n -> Kids]
  BY <1>3, <1>4 DEF CrashWorkers
<1>6. kids' \in Seq(Kids)
  BY <1>3, <1>5, SeqDef
<1>7. Len(kids') = n
  <2>1. DOMAIN kids' = 1..n /\ DOMAIN kids' = 1..Len(kids') /\ Len(kids') \in Nat
    BY <1>5, <1>6, LenProperties
  <2> QED BY <1>3, <2>1
<1>8. head' \in [no : Nat, chain : Nat, status : {"running", "over", "parked", "crashed"},
                 delegated : Nat, usage : Nat]
      /\ head'.chain = head.chain /\ UNCHANGED sourceNow
  BY DEF CrashWorkers, WorkersInv, WorkersType
<1>9. WorkersType'
  BY <1>1, <1>2, <1>6, <1>8 DEF WorkersInv, WorkersType
<1> QED BY <1>1, <1>4, <1>7, <1>8, <1>9, QuietStep

\* The steps together.
LEMMA WorkersStep == WorkersInv /\ [WorkersNext]_workerVars => WorkersInv'
<1> SUFFICES ASSUME WorkersInv, [WorkersNext]_workerVars PROVE WorkersInv'
  OBVIOUS
<1>1. CASE UNCHANGED workerVars
  BY <1>1 DEF workerVars, WorkersInv, WorkersType, CallInv, DelegatedOnce, DelegationHistory,
              Signature, ToAdmit
<1> QED BY <1>1, SourceAndRuns, CallBegins, CheckStep, AdmitStep, AnnounceStep, ChildSteps,
           CallEnds, CrashStep DEF WorkersNext

\* The state a Session starts in.
LEMMA WorkersStart == WorkersInit => WorkersInv
<1> SUFFICES ASSUME WorkersInit PROVE WorkersInv
  OBVIOUS
<1>1. /\ <<>> \in Seq(Kids) /\ <<>> \in Seq(Goals) /\ <<>> \in Seq(Sources)
      /\ DOMAIN kids = {}
  BY EmptySeq DEF WorkersInit
<1>2. WorkersType
  BY <1>1 DEF WorkersInit, WorkersType, NoCall, FirstOf
<1>3. CallInv /\ DelegatedOnce
  BY <1>1 DEF WorkersInit, CallInv, NoCall, DelegatedOnce
<1> QED BY <1>2, <1>3 DEF WorkersInv

\* For every number of Runs, calls, tasks and contents: no task is delegated twice on the same
\* source over a Continue chain, whatever is cancelled, timed out or lost in between
\* (workers.py delegation_history, host.py delegate_readonly).
THEOREM NeverDelegatedTwice == WorkersSpec => []DelegatedOnce
<1>1. WorkersInv => DelegatedOnce
  BY DEF WorkersInv
<1> QED BY <1>1, WorkersStart, WorkersStep, PTL DEF WorkersSpec

(***************************************************************************)
(* Accounts.  A worker that runs belongs to the call in progress and is    *)
(* not settled; the Run has counted those of its workers that are settled, *)
(* and between calls they all are.                                         *)
(***************************************************************************)
Counted == {i \in Own : kids[i].settled /\ kids[i].usage = 1}
BetweenCalls == call.pc \in {"idle", "copying"}

SettleInv ==
  /\ \A i \in DOMAIN kids :
       /\ kids[i].run <= head.no
       /\ WorkerRuns(i) => kids[i].run = head.no /\ ~ kids[i].settled /\ ~ BetweenCalls
  /\ head.status # "crashed" =>
       /\ head.usage = Cardinality(Counted)
       /\ BetweenCalls => Unsettled = {}

\* Steps that settle nobody and admit nobody.
LEMMA SameAccounts ==
  ASSUME SettleInv, DOMAIN kids' = DOMAIN kids, head'.no = head.no, head'.usage = head.usage,
         head'.status # "crashed" => head.status # "crashed",
         \A i \in DOMAIN kids :
           /\ kids'[i].run = kids[i].run /\ kids'[i].settled = kids[i].settled
           /\ kids[i].settled => kids'[i].usage = kids[i].usage
           /\ WorkerRuns(i)' => WorkerRuns(i),
         BetweenCalls' => \/ BetweenCalls
                          \/ /\ \A i \in DOMAIN kids : ~ WorkerRuns(i)'
                             /\ head'.status # "crashed" => Unsettled = {}
  PROVE  SettleInv'
<1>1. Counted' = Counted /\ Unsettled' = Unsettled
  BY DEF Counted, Unsettled, Own
<1>2. ASSUME NEW i \in DOMAIN kids
      PROVE  /\ kids'[i].run <= head'.no
             /\ WorkerRuns(i)' => kids'[i].run = head'.no /\ ~ kids'[i].settled /\ ~ BetweenCalls'
  BY <1>2 DEF SettleInv
<1>3. head'.status # "crashed" =>
        /\ head'.usage = Cardinality(Counted')
        /\ BetweenCalls' => Unsettled' = {}
  BY <1>1 DEF SettleInv
<1> QED BY <1>2, <1>3 DEF SettleInv

\* A step that leaves the workers and what the Run has counted alone.
LEMMA KidsAlone ==
  ASSUME SettleInv, UNCHANGED kids, head'.no = head.no, head'.usage = head.usage,
         head'.status # "crashed" => head.status # "crashed", BetweenCalls' => BetweenCalls
  PROVE  SettleInv'
<1>1. \A i \in DOMAIN kids : WorkerRuns(i)' => WorkerRuns(i)
  BY DEF WorkerRuns
<1> QED BY <1>1, SameAccounts

LEMMA AccountsOfCalls ==
  ASSUME WorkersInv, SettleInv,
         \/ EditSource \/ EndRun \/ (\E goals \in Batches : Delegate(goals))
         \/ CopySource \/ CheckHistory \/ StopWaiting \/ CancelCall
  PROVE  SettleInv'
<1>0. /\ head \in [no : Nat, chain : Nat, status : {"running", "over", "parked", "crashed"},
                   delegated : Nat, usage : Nat]
      /\ call \in [pc : {"idle", "copying", "admitting", "announcing", "waiting", "settling"},
                   goals : Seq(Goals), snaps : Seq(Sources), left : Nat, stop : BOOLEAN]
  BY DEF WorkersInv, WorkersType
<1>1. CASE EditSource
  BY <1>1, KidsAlone DEF EditSource, BetweenCalls
<1>2. CASE EndRun
  BY <1>0, <1>2, KidsAlone DEF EndRun, BetweenCalls
<1>3. CASE \E goals \in Batches : Delegate(goals)
  BY <1>0, <1>3, KidsAlone DEF Delegate, BetweenCalls
<1>4. CASE CopySource
  BY <1>0, <1>4, KidsAlone DEF CopySource, BetweenCalls
<1>5. CASE CheckHistory
  <2>1. /\ UNCHANGED kids /\ call.pc = "copying"
        /\ head'.no = head.no /\ head'.usage = head.usage /\ head'.status = head.status
    BY <1>0, <1>5 DEF CheckHistory
  <2> QED BY <2>1, KidsAlone DEF BetweenCalls
<1>6. CASE StopWaiting \/ CancelCall
  <2>1. UNCHANGED <<kids, head>> /\ call'.pc = "settling"
    BY <1>0, <1>6 DEF StopWaiting, CancelCall
  <2> QED BY <2>1, KidsAlone DEF BetweenCalls
<1> QED BY <1>1, <1>2, <1>3, <1>4, <1>5, <1>6

\* The next Run has no worker yet.
LEMMA AccountsOfNextRun ==
  ASSUME WorkersInv, SettleInv, NextRun
  PROVE  SettleInv'
<1>1. /\ head'.no = head.no + 1 /\ head'.usage = 0 /\ head.no \in Nat
      /\ call.pc = "idle" /\ UNCHANGED <<kids, call>>
  BY DEF NextRun, FirstOf, WorkersInv, WorkersType, CallInv
<1>2. \A i \in DOMAIN kids : kids[i].run <= head.no /\ ~ WorkerRuns(i) /\ kids[i].run \in Nat
  <2>1. \A i \in DOMAIN kids : kids[i].run \in Nat
    BY KidOf DEF WorkersInv, Kids
  <2> QED BY <1>1, <2>1 DEF SettleInv, BetweenCalls
<1>3. Own' = {}
  BY <1>1, <1>2 DEF Own
<1>4. Unsettled' = {} /\ Counted' = {}
  BY <1>3 DEF Unsettled, Counted
<1>5. \A i \in DOMAIN kids' : ~ WorkerRuns(i)'
  BY <1>1, <1>2 DEF WorkerRuns
<1>6. \A i \in DOMAIN kids' : kids'[i].run <= head'.no
  BY <1>1, <1>2
<1>7. head'.usage = Cardinality(Counted')
  BY <1>1, <1>4, FS_EmptySet
<1> QED BY <1>4, <1>5, <1>6, <1>7 DEF SettleInv

\* An admitted worker runs, is one of this Run's and is not settled.
LEMMA AccountsOfAdmission ==
  ASSUME WorkersInv, SettleInv, AdmitWorker
  PROVE  SettleInv'
<1> DEFINE n == Len(kids)
<1> DEFINE i == Len(call.goals) - call.left + 1
           e == [run |-> head.no, chain |-> head.chain, task |-> call.goals[i],
                 content |-> call.snaps[i], started |-> FALSE, status |-> "running",
                 usage |-> 0, settled |-> FALSE]
<1>1. /\ kids' = Append(kids, e) /\ e.run = head.no /\ ~ e.settled
      /\ UNCHANGED head /\ call'.pc = "announcing"
  <2>1. /\ kids' = Append(kids, e) /\ UNCHANGED head
        /\ call' = [call EXCEPT !.pc = "announcing", !.left = @ - 1]
    BY DEF AdmitWorker
  <2>2. call'.pc = "announcing"
    <3> HIDE DEF e
    <3> QED BY <2>1 DEF WorkersInv, WorkersType
  <2> QED BY <2>1, <2>2
<1> HIDE DEF e, i
<1>2. /\ n \in Nat /\ DOMAIN kids = 1..n /\ DOMAIN kids' = 1..(n + 1) /\ kids'[n + 1] = e
      /\ \A k \in 1..n : kids'[k] = kids[k]
  BY <1>1, AppendProperties, LenProperties DEF WorkersInv, WorkersType
<1>3. Counted' = Counted
  BY <1>1, <1>2 DEF Counted, Own
<1>4. head.no \in Nat
  BY DEF WorkersInv, WorkersType
<1>5. ~ BetweenCalls'
  BY <1>1 DEF BetweenCalls
<1>6. ASSUME NEW k \in DOMAIN kids'
      PROVE  /\ kids'[k].run <= head'.no
             /\ WorkerRuns(k)' => kids'[k].run = head'.no /\ ~ kids'[k].settled
  BY <1>1, <1>2, <1>4, <1>6 DEF SettleInv, WorkerRuns
<1> QED BY <1>1, <1>3, <1>5, <1>6 DEF SettleInv

\* A worker that is announced, or that ends, is not settled by it.
LEMMA AccountsOfWorkers ==
  ASSUME WorkersInv, SettleInv, AnnounceWorker \/ (\E i \in DOMAIN kids : WorkerEnds(i))
  PROVE  SettleInv'
<1>0. /\ \A i \in DOMAIN kids : kids[i] \in Kids
      /\ call \in [pc : {"idle", "copying", "admitting", "announcing", "waiting", "settling"},
                   goals : Seq(Goals), snaps : Seq(Sources), left : Nat, stop : BOOLEAN]
  BY KidOf DEF WorkersInv, WorkersType
<1>1. CASE AnnounceWorker
  <2>1. /\ UNCHANGED head /\ ~ BetweenCalls' /\ kids' = [kids EXCEPT ![Len(kids)].started = TRUE]
    BY <1>0, <1>1 DEF AnnounceWorker, BetweenCalls
  <2>2. /\ DOMAIN kids' = DOMAIN kids
        /\ \A i \in DOMAIN kids : /\ kids'[i].run = kids[i].run /\ kids'[i].settled = kids[i].settled
                                  /\ kids'[i].usage = kids[i].usage /\ kids'[i].status = kids[i].status
    BY <1>0, <2>1 DEF Kids
  <2> QED BY <2>1, <2>2, SameAccounts DEF WorkerRuns
<1>2. ASSUME NEW i \in DOMAIN kids, WorkerEnds(i)
      PROVE  SettleInv'
  <2>1. PICK outcome \in Outcomes :
          kids' = [kids EXCEPT ![i].status = outcome[1], ![i].usage = outcome[2]]
    BY <1>2 DEF WorkerEnds
  <2>2. outcome[1] # "running"
    BY DEF Outcomes
  <2>3. ~ kids[i].settled /\ UNCHANGED <<head, call>>
    BY <1>2 DEF WorkerEnds, SettleInv
  <2>4. kids'[i] = [kids[i] EXCEPT !.status = outcome[1], !.usage = outcome[2]]
    BY <2>1
  <2>5. /\ kids'[i].run = kids[i].run /\ kids'[i].settled = kids[i].settled
        /\ kids'[i].status = outcome[1]
    BY <1>0, <2>4 DEF Kids
  <2>6. DOMAIN kids' = DOMAIN kids /\ \A k \in DOMAIN kids : k # i => kids'[k] = kids[k]
    BY <2>1
  <2>7. \A k \in DOMAIN kids : WorkerRuns(k)' => WorkerRuns(k)
    BY <2>2, <2>5, <2>6 DEF WorkerRuns
  <2>8. BetweenCalls' => BetweenCalls
    BY <2>3 DEF BetweenCalls
  <2> QED BY <2>3, <2>5, <2>6, <2>7, <2>8, SameAccounts
<1> QED BY <1>1, <1>2

\* A settlement counts what the worker used, once.
LEMMA AccountsOfSettlement ==
  ASSUME WorkersInv, SettleInv, SettleWorker
  PROVE  SettleInv'
<1>1. PICK i \in Unsettled : /\ kids' = [kids EXCEPT ![i].settled = TRUE]
                             /\ head' = [head EXCEPT !.usage = @ + kids[i].usage]
                             /\ UNCHANGED call
  BY DEF SettleWorker
<1>2. /\ call.pc = "settling" /\ head.status = "running" /\ ~ BetweenCalls'
      /\ \A k \in Own : ~ WorkerRuns(k)
  BY <1>1 DEF SettleWorker, WorkersInv, CallInv, BetweenCalls
<1>3. /\ i \in DOMAIN kids /\ kids[i] \in Kids /\ kids[i].run = head.no /\ ~ kids[i].settled
      /\ \A k \in DOMAIN kids : kids[k] \in Kids
  BY <1>1, KidOf DEF Unsettled, Own, WorkersInv
<1>4. /\ kids'[i] = [kids[i] EXCEPT !.settled = TRUE] /\ DOMAIN kids' = DOMAIN kids
      /\ \A k \in DOMAIN kids : k # i => kids'[k] = kids[k]
  BY <1>1, <1>3
<1>5. /\ kids'[i].run = head.no /\ kids'[i].settled /\ kids'[i].usage = kids[i].usage
      /\ kids'[i].status = kids[i].status
  BY <1>3, <1>4 DEF Kids
<1>6. /\ head'.no = head.no /\ head'.status = head.status
      /\ head'.usage = head.usage + kids[i].usage /\ head.usage \in Nat
  BY <1>1 DEF WorkersInv, WorkersType
<1>7. IsFiniteSet(Counted) /\ i \notin Counted /\ head.usage = Cardinality(Counted)
  <2>1. DOMAIN kids = 1..Len(kids) /\ Len(kids) \in Nat
    BY LenProperties DEF WorkersInv, WorkersType
  <2>2. IsFiniteSet(DOMAIN kids)
    BY <2>1, FS_Interval
  <2>3. Counted \in SUBSET DOMAIN kids
    BY DEF Counted, Own
  <2> QED BY <1>2, <1>3, <2>2, <2>3, FS_Subset DEF SettleInv, Counted
<1>8. head'.usage = Cardinality(Counted')
  <2>1. CASE kids[i].usage = 1
    <3>1. Counted' = Counted \cup {i}
      BY <1>3, <1>4, <1>5, <1>6, <2>1 DEF Counted, Own
    <3> QED BY <1>6, <1>7, <2>1, <3>1, FS_AddElement
  <2>2. CASE kids[i].usage = 0
    <3>0. Own' = Own
      BY <1>3, <1>4, <1>5, <1>6 DEF Own
    <3>1. i \notin Counted'
      <4>1. kids'[i].usage # 1
        BY <1>5, <2>2
      <4> QED BY <4>1 DEF Counted
    <3>2. \A k \in Own \ {i} : kids'[k] = kids[k]
      BY <1>4 DEF Own
    <3>3. Counted' = Counted
      BY <1>7, <3>0, <3>1, <3>2 DEF Counted
    <3> QED BY <1>6, <1>7, <2>2, <3>3
  <2> QED BY <1>3, <2>1, <2>2 DEF Kids
<1>9. ASSUME NEW k \in DOMAIN kids'
      PROVE  /\ kids'[k].run <= head'.no
             /\ WorkerRuns(k)' => kids'[k].run = head'.no /\ ~ kids'[k].settled
  <2>1. CASE k = i
    <3>1. ~ WorkerRuns(i) /\ head.no \in Nat
      BY <1>1, <1>2 DEF Unsettled, WorkersInv, WorkersType
    <3> QED BY <1>5, <1>6, <2>1, <3>1 DEF WorkerRuns
  <2>2. CASE k # i
    BY <1>4, <1>6, <1>9, <2>2 DEF SettleInv, WorkerRuns
  <2> QED BY <2>1, <2>2
<1> QED BY <1>2, <1>8, <1>9 DEF SettleInv

\* A call ends when its workers are settled; a crash ends them and the accounts of the Run.
LEMMA AccountsAtTheEnd ==
  ASSUME WorkersInv, SettleInv, EndCall \/ CrashWorkers
  PROVE  SettleInv'
<1>1. CASE EndCall
  <2>1. /\ Unsettled = {} /\ UNCHANGED kids /\ call.pc = "settling"
        /\ head'.no = head.no /\ head'.usage = head.usage /\ head.status # "crashed"
    BY <1>1 DEF EndCall, WorkersInv, WorkersType, CallInv
  <2>2. \A i \in DOMAIN kids : ~ WorkerRuns(i)' /\ (WorkerRuns(i)' => WorkerRuns(i))
    BY <2>1 DEF SettleInv, Unsettled, Own, WorkerRuns
  <2> QED BY <2>1, <2>2, SameAccounts
<1>2. CASE CrashWorkers
  <2>1. /\ DOMAIN kids' = DOMAIN kids
        /\ \A i \in DOMAIN kids : kids'[i] = IF WorkerRuns(i) THEN [kids[i] EXCEPT !.status = "failed"]
                                             ELSE kids[i]
        /\ \A i \in DOMAIN kids : kids[i] \in Kids
    BY <1>2, KidOf DEF CrashWorkers, WorkersInv
  <2>2. \A i \in DOMAIN kids :
          /\ kids'[i].run = kids[i].run /\ kids'[i].settled = kids[i].settled
          /\ kids'[i].usage = kids[i].usage /\ ~ WorkerRuns(i)'
    BY <2>1 DEF Kids, WorkerRuns
  <2>3. /\ head'.no = head.no /\ head'.usage = head.usage
        /\ head'.status # "crashed" => head.status \in {"over", "parked"}
    BY <1>2 DEF CrashWorkers, WorkersInv, WorkersType
  <2>4. head'.status # "crashed" => Unsettled = {}
    BY <2>3 DEF WorkersInv, CallInv, SettleInv, BetweenCalls
  <2> QED BY <2>1, <2>2, <2>3, <2>4, SameAccounts
<1> QED BY <1>1, <1>2

\* When a call is over its workers are too, and the Run has counted what each of them used,
\* once: however the call ended (host.py delegate_readonly, its finally).
THEOREM CallsSettle == WorkersSpec => []WorkersSettle
<1>1. WorkersInit => SettleInv
  <2> SUFFICES ASSUME WorkersInit PROVE SettleInv
    OBVIOUS
  <2>1. DOMAIN kids = {} /\ head.usage = 0
    BY DEF WorkersInit, FirstOf
  <2>2. Own = {} /\ Counted = {} /\ Unsettled = {}
    BY <2>1 DEF Own, Counted, Unsettled
  <2> QED BY <2>1, <2>2, FS_EmptySet DEF SettleInv
<1>2. WorkersInv /\ SettleInv /\ [WorkersNext]_workerVars => SettleInv'
  <2> SUFFICES ASSUME WorkersInv, SettleInv, [WorkersNext]_workerVars PROVE SettleInv'
    OBVIOUS
  <2>1. CASE UNCHANGED workerVars
    BY <2>1, KidsAlone DEF workerVars, BetweenCalls
  <2> QED BY <2>1, AccountsOfCalls, AccountsOfNextRun, AccountsOfAdmission, AccountsOfWorkers,
             AccountsOfSettlement, AccountsAtTheEnd DEF WorkersNext
<1>3. WorkersInv /\ SettleInv => WorkersSettle
  <2> SUFFICES ASSUME WorkersInv, SettleInv, call.pc = "idle"
               PROVE  /\ \A i \in DOMAIN kids : ~WorkerRuns(i)
                      /\ head.status # "crashed" =>
                           head.usage = Cardinality({i \in Own : kids[i].usage = 1})
    BY DEF WorkersSettle
  <2>1. BetweenCalls
    BY DEF BetweenCalls
  <2>2. \A i \in DOMAIN kids : ~WorkerRuns(i)
    BY <2>1 DEF SettleInv
  <2>3. Unsettled = {} => Counted = {i \in Own : kids[i].usage = 1}
    BY DEF Unsettled, Counted
  <2> QED BY <2>1, <2>2, <2>3 DEF SettleInv
<1> QED BY <1>1, <1>2, <1>3, WorkersStart, WorkersStep, PTL DEF WorkersSpec

(***************************************************************************)
(* The index: a publication is exactly what one build found, and an answer *)
(* is of one generation of the index.  Both rest on the generation: while  *)
(* it is what a build or a search has read, the index is what it has read. *)
(***************************************************************************)
RowSet   == {None} \cup [text : Texts, profile : Profiles]
TextSeqs == Seq(Texts \cup {None})
RowsOf(rows, profile) == \A d \in Documents : rows[d] = None \/ rows[d].profile = profile

Writing   == {"verifying", "committing"}
Reading   == {"scanning", "embedding", "embedded"} \cup Writing
BuildSet  == [pc : {"new", "admitted", "opened", "over"} \cup Reading, force : BOOLEAN,
              profile : Profiles \cup {None}, generation : Nat,
              existing : {<<>>} \cup [Documents -> RowSet], scan : TextSeqs, verified : TextSeqs]
Pins      == [generation : Nat, profile : Profiles \cup {None}]
LookupSet ==
  [pc : {"idle", "asked", "valid", "dense", "searched", "rewriting", "asked again", "valid again",
         "dense again", "searched again", "answered"},
   profile : Profiles \cup {None}, generation : Nat, pin : Pins \cup {None},
   found : SUBSET Pins, extra : SUBSET Pins]

IndexType ==
  /\ corpus \in [Documents -> Texts \cup {None}] /\ configured \in Profiles
  /\ index \in [generation : Nat, profile : Profiles \cup {None}, rows : [Documents -> RowSet]]
  /\ build \in [Builders -> BuildSet] /\ lookup \in LookupSet

\* What a build knows: once it has read, the rows are those it read for as long as the
\* generation is the one it read before them; in a publication it is, and what is committed has
\* been verified.
BuildSound(r) ==
  /\ r.pc \in {"admitted", "opened"} \cup Reading => r.profile \in Profiles
  /\ r.pc \in {"opened"} \cup Reading => r.generation <= index.generation
  /\ r.pc \in Reading =>
       /\ r.existing \in [Documents -> RowSet]
       /\ r.generation = index.generation => r.existing = index.rows
       /\ ~ r.force => RowsOf(r.existing, r.profile)
  /\ r.pc \in {"admitted", "opened", "scanning"} => Len(r.scan) < MaxDocuments
  /\ Len(r.verified) <= MaxDocuments
  /\ r.pc \in Writing => r.generation = index.generation
  /\ r.pc = "committing" => r.verified = r.scan /\ Scanned(r.verified)

\* Publications exclude each other.
OneWriter == \A b, c \in Builders : HoldsWriteLock(b) /\ HoldsWriteLock(c) => b = c

\* What a search holds: its pins are of its profile and not older than its generation, and
\* what it has found is of that generation until it answers.
LookupSound ==
  /\ lookup.generation <= index.generation
  /\ lookup.pc \in {"asked", "valid", "dense", "searched"} => lookup.found = {}
  /\ lookup.pc \in {"asked", "valid", "rewriting", "asked again", "valid again"} => lookup.extra = {}
  /\ lookup.pc \in {"dense", "searched", "dense again", "searched again"} =>
       /\ lookup.pin \in Pins /\ lookup.extra = {lookup.pin} /\ lookup.pin.profile = lookup.profile
       /\ lookup.generation <= lookup.pin.generation /\ lookup.pin.generation <= index.generation
  /\ lookup.pc \in {"rewriting", "asked again", "valid again", "dense again", "searched again"} =>
       \A p \in lookup.found : p.generation = lookup.generation /\ p.profile = lookup.profile
  /\ AnswerIsOneIndex

IndexInv ==
  /\ IndexType /\ RowsOf(index.rows, index.profile)
  /\ \A b \in Builders : BuildSound(build[b])
  /\ OneWriter /\ LookupSound

-----------------------------------------------------------------------------
\* A build that goes on keeps the invariant if what it knows then is sound.
LEMMA BuildGoesOn ==
  ASSUME IndexInv, NEW b \in Builders, NEW r \in BuildSet,
         build' = [build EXCEPT ![b] = r], BuildSound(r),
         r.pc \in Writing => \A c \in Builders \ {b} : ~ HoldsWriteLock(c),
         UNCHANGED <<corpus, configured, index, lookup>>
  PROVE  IndexInv'
<1>1. build' \in [Builders -> BuildSet] /\ \A c \in Builders : build'[c] = IF c = b THEN r ELSE build[c]
  BY DEF IndexInv, IndexType
<1>2. IndexType' /\ RowsOf(index.rows, index.profile)'
  BY <1>1 DEF IndexInv, IndexType, RowsOf
<1>3. \A c \in Builders : BuildSound(build[c])'
  BY <1>1 DEF IndexInv, BuildSound, RowsOf
<1>4. OneWriter'
  BY <1>1 DEF IndexInv, OneWriter, HoldsWriteLock, Writing
<1>5. LookupSound'
  BY DEF IndexInv, LookupSound, AnswerIsOneIndex
<1> QED BY <1>2, <1>3, <1>4, <1>5 DEF IndexInv

LEMMA NatOrder == \A g \in Nat : 0 <= g /\ g <= g
OBVIOUS

LEMMA NoBuildType == NoBuild \in BuildSet /\ NoBuild.scan = <<>> /\ NoBuild.verified = <<>>
<1> DEFINE e == <<>>
<1>1. e \in TextSeqs /\ e \in {<<>>} \cup [Documents -> RowSet]
  BY DEF TextSeqs
<1>2. NoBuild = [pc |-> "new", force |-> FALSE, profile |-> None, generation |-> 0,
                 existing |-> e, scan |-> e, verified |-> e]
  BY DEF NoBuild
<1> HIDE DEF e
<1>3. NoBuild \in BuildSet /\ NoBuild.scan = e /\ NoBuild.verified = e
  BY <1>1, <1>2 DEF BuildSet
<1> QED BY <1>3 DEF e

\* A build that ends knows nothing any more.
LEMMA BuildEnds ==
  ASSUME IndexInv, NEW b \in Builders, EndBuild(b),
         UNCHANGED <<corpus, configured, lookup>>
  PROVE  IndexInv'
<1> DEFINE r == [NoBuild EXCEPT !.pc = "over"]
<1>3. r \in BuildSet /\ r.pc = "over" /\ r.verified = <<>>
  BY NoBuildType DEF BuildSet
<1>4. build' = [build EXCEPT ![b] = r] /\ UNCHANGED index
  BY DEF EndBuild
<1> HIDE DEF r
<1>5. BuildSound(r)
  BY <1>3, IndexAssumption DEF BuildSound, Reading, Writing
<1> QED BY <1>3, <1>4, <1>5, BuildGoesOn DEF Writing

\* The parts of one builder's record.
LEMMA BuildFields ==
  ASSUME IndexInv, NEW b \in Builders
  PROVE  /\ build[b] \in BuildSet /\ BuildSound(build[b])
         /\ index.generation \in Nat /\ index.rows \in [Documents -> RowSet]
         /\ index.profile \in Profiles \cup {None}
  BY DEF IndexInv, IndexType

LEMMA AdmitKeeps ==
  ASSUME IndexInv, NEW b \in Builders, NEW force \in BOOLEAN, AdmitBuild(b, force)
  PROVE  IndexInv'
<1> DEFINE r == [NoBuild EXCEPT !.pc = "admitted", !.force = force, !.profile = configured]
<1>1. configured \in Profiles
  BY DEF IndexInv, IndexType
<1>3. build' = [build EXCEPT ![b] = r] /\ UNCHANGED <<corpus, configured, index, lookup>>
  BY DEF AdmitBuild, Builds
<1>4. r \in BuildSet /\ r.pc = "admitted" /\ r.profile \in Profiles
        /\ r.scan = <<>> /\ r.verified = <<>>
  BY <1>1, NoBuildType DEF BuildSet
<1> HIDE DEF r
<1>5. Len(r.scan) < MaxDocuments /\ Len(r.verified) <= MaxDocuments
  BY <1>4, IndexAssumption
<1>6. BuildSound(r)
  BY <1>4, <1>5 DEF BuildSound, Reading, Writing
<1> QED BY <1>3, <1>4, <1>6, BuildGoesOn DEF Writing

LEMMA OpenKeeps ==
  ASSUME IndexInv, NEW b \in Builders, OpenBuild(b)
  PROVE  IndexInv'
<1> DEFINE r == [build[b] EXCEPT !.pc = "opened", !.generation = index.generation]
<1>1. build[b] \in BuildSet /\ BuildSound(build[b]) /\ index.generation \in Nat
  BY BuildFields
<1>2. r \in BuildSet /\ r.pc = "opened" /\ r.generation = index.generation
        /\ r.profile = build[b].profile /\ r.scan = build[b].scan
        /\ r.verified = build[b].verified
  BY <1>1 DEF BuildSet, Reading, Writing
<1>3. BuildSound(r)
  <2> HIDE DEF r
  <2> QED BY <1>1, <1>2 DEF BuildSound, Reading, Writing, OpenBuild, Builds
<1>4. build' = [build EXCEPT ![b] = r] /\ UNCHANGED <<corpus, configured, index, lookup>>
  BY <1>1 DEF OpenBuild, Builds, IndexInv, IndexType
<1> HIDE DEF r
<1> QED BY <1>2, <1>3, <1>4, BuildGoesOn DEF Writing

LEMMA ReadKeeps ==
  ASSUME IndexInv, NEW b \in Builders, ReadIndex(b)
  PROVE  IndexInv'
<1>1. CASE ~ build[b].force /\ index.profile \notin {None, build[b].profile}
  BY <1>1, BuildEnds DEF ReadIndex, Builds
<1>2. CASE build[b].force \/ index.profile \in {None, build[b].profile}
  <2> DEFINE r == [build[b] EXCEPT !.pc = "scanning", !.existing = index.rows]
  <2>1. build[b] \in BuildSet /\ BuildSound(build[b]) /\ index.rows \in [Documents -> RowSet]
    BY BuildFields
  <2>2. build[b].pc = "opened"
    BY DEF ReadIndex, Builds
  <2>3. /\ r \in BuildSet /\ r.pc = "scanning" /\ r.existing = index.rows
        /\ r.generation = build[b].generation /\ r.profile = build[b].profile
        /\ r.force = build[b].force /\ r.scan = build[b].scan
        /\ r.verified = build[b].verified
    BY <2>1 DEF BuildSet, Reading, Writing
  <2>4. build' = [build EXCEPT ![b] = r] /\ UNCHANGED <<corpus, configured, index, lookup>>
    BY <1>2, <2>1 DEF ReadIndex, Builds, IndexInv, IndexType
  <2> HIDE DEF r
  <2>5. index.profile = None => \A d \in Documents : index.rows[d] = None
    BY <2>1, IndexAssumption DEF IndexInv, RowsOf, RowSet
  <2>6. ~ r.force => RowsOf(r.existing, r.profile)
    BY <1>2, <2>3, <2>5 DEF IndexInv, RowsOf
  <2>7. BuildSound(r)
    BY <2>1, <2>2, <2>3, <2>6 DEF BuildSound, Reading, Writing
  <2> QED BY <2>3, <2>4, <2>7, BuildGoesOn DEF Writing
<1> QED BY <1>1, <1>2

\* The next document of a scan is one of the Workspace.
LEMMA ScanGrows ==
  ASSUME IndexInv, NEW texts \in TextSeqs, Len(texts) < MaxDocuments
  PROVE  ScanNext(texts) \in TextSeqs /\ Len(ScanNext(texts)) = Len(texts) + 1
<1>1. Len(texts) + 1 \in Documents
  BY IndexAssumption DEF Documents, TextSeqs
<1>2. corpus[Len(texts) + 1] \in Texts \cup {None}
  BY <1>1 DEF IndexInv, IndexType
<1> QED BY <1>2, AppendProperties DEF ScanNext, TextSeqs

\* A build of this many documents reads on, or has read them all.
LEMMA ScanKeeps ==
  ASSUME IndexInv, NEW b \in Builders, ScanDocument(b)
  PROVE  IndexInv'
<1> DEFINE texts == ScanNext(build[b].scan)
           r == [build[b] EXCEPT !.scan = texts,
                                 !.pc = IF Scanned(texts) THEN "embedding" ELSE @]
<1>1. build[b] \in BuildSet /\ BuildSound(build[b]) /\ build[b].pc = "scanning"
  BY BuildFields DEF ScanDocument, Builds
<1>2. build[b].scan \in TextSeqs /\ Len(build[b].scan) < MaxDocuments
  BY <1>1 DEF BuildSet, BuildSound
<1>3. texts \in TextSeqs /\ Len(texts) = Len(build[b].scan) + 1
  BY <1>2, ScanGrows
<1>4. build' = [build EXCEPT ![b] = r] /\ UNCHANGED <<corpus, configured, index, lookup>>
  BY <1>1 DEF ScanDocument, Builds, IndexInv, IndexType
<1>5. Len(build[b].scan) \in Nat /\ MaxDocuments \in Nat
  BY <1>2, IndexAssumption DEF TextSeqs
<1> HIDE DEF texts
<1>6. /\ r \in BuildSet /\ r.scan = texts /\ r.existing = build[b].existing
      /\ r.pc \in {"scanning", "embedding"} /\ (r.pc = "scanning" => ~ Scanned(texts))
      /\ r.generation = build[b].generation /\ r.profile = build[b].profile
      /\ r.force = build[b].force /\ r.verified = build[b].verified
  BY <1>1, <1>3 DEF BuildSet, Reading, Writing
<1> HIDE DEF r
<1>7. r.pc = "scanning" => Len(r.scan) < MaxDocuments
  BY <1>2, <1>3, <1>5, <1>6 DEF Scanned
<1>8. BuildSound(r)
  BY <1>1, <1>6, <1>7 DEF BuildSound, Reading, Writing
<1> QED BY <1>4, <1>6, <1>8, BuildGoesOn DEF Writing

\* A build that only goes from one step of its work to the next.
LEMMA NextPhaseKeeps ==
  ASSUME IndexInv, NEW b \in Builders, NEW to \in Reading \ {"scanning"}, build[b].pc \in Reading,
         build' = [build EXCEPT ![b].pc = to], UNCHANGED <<corpus, configured, index, lookup>>,
         to \in Writing => StillCurrent(b) /\ \A c \in Builders \ {b} : ~ HoldsWriteLock(c),
         to = "committing" => build[b].verified = build[b].scan /\ Scanned(build[b].verified)
  PROVE  IndexInv'
<1> DEFINE r == [build[b] EXCEPT !.pc = to]
<1>1. build[b] \in BuildSet /\ BuildSound(build[b])
  BY BuildFields
<1>2. build' = [build EXCEPT ![b] = r]
  BY <1>1 DEF IndexInv, IndexType
<1>3. /\ r \in BuildSet /\ r.pc = to /\ r.existing = build[b].existing
      /\ r.generation = build[b].generation /\ r.profile = build[b].profile
      /\ r.force = build[b].force /\ r.scan = build[b].scan
      /\ r.verified = build[b].verified
  BY <1>1 DEF BuildSet, Reading, Writing
<1> HIDE DEF r
<1>4. BuildSound(r)
  BY <1>1, <1>3 DEF BuildSound, Reading, Writing, StillCurrent
<1> QED BY <1>2, <1>3, <1>4, BuildGoesOn

LEMMA EmbedKeeps ==
  ASSUME IndexInv, NEW b \in Builders, EmbedDocuments(b)
  PROVE  IndexInv'
<1>1. CASE EndBuild(b)
  BY <1>1, BuildEnds DEF EmbedDocuments, Builds
<1>2. CASE UNCHANGED index /\ build' = [build EXCEPT ![b].pc = "embedded"]
  <2>1. build[b].pc \in Reading /\ "embedded" \in Reading \ {"scanning"}
    BY DEF EmbedDocuments, Builds, Reading, Writing
  <2>2. UNCHANGED <<corpus, configured, index, lookup>>
    BY <1>2 DEF EmbedDocuments, Builds
  <2> QED BY <1>2, <2>1, <2>2, NextPhaseKeeps DEF Writing
<1> QED BY <1>1, <1>2 DEF EmbedDocuments

LEMMA BeginKeeps ==
  ASSUME IndexInv, NEW b \in Builders, BeginPublication(b)
  PROVE  IndexInv'
<1>1. CASE b \in stopped \/ ~ StillCurrent(b)
  BY <1>1, BuildEnds DEF BeginPublication, Builds
<1>2. CASE b \notin stopped /\ StillCurrent(b)
  BY <1>2, NextPhaseKeeps DEF BeginPublication, Builds, Reading, Writing
<1> QED BY <1>1, <1>2

LEMMA VerifyKeeps ==
  ASSUME IndexInv, NEW b \in Builders, VerifyDocument(b)
  PROVE  IndexInv'
<1> DEFINE texts == ScanNext(build[b].verified)
<1>1. build[b] \in BuildSet /\ BuildSound(build[b]) /\ build[b].pc = "verifying"
  BY BuildFields DEF VerifyDocument, Builds
<1>2. texts \in TextSeqs /\ Len(texts) <= MaxDocuments
  <2>1. build[b].verified \in TextSeqs /\ Len(build[b].verified) \in Nat
    BY <1>1 DEF BuildSet, TextSeqs
  <2>2. Len(build[b].verified) < MaxDocuments
    BY <1>1, <2>1, IndexAssumption DEF BuildSound, VerifyDocument, Scanned
  <2>3. texts \in TextSeqs /\ Len(texts) = Len(build[b].verified) + 1
    BY <2>1, <2>2, ScanGrows
  <2> HIDE DEF texts
  <2> QED BY <2>1, <2>2, <2>3, IndexAssumption
<1>3. build' = [build EXCEPT ![b] = [build[b] EXCEPT !.verified = texts]]
  BY <1>1 DEF VerifyDocument, Builds, IndexInv, IndexType
<1> HIDE DEF texts
<1> DEFINE r == [build[b] EXCEPT !.verified = texts]
<1>4. /\ r \in BuildSet /\ r.verified = texts /\ r.existing = build[b].existing
      /\ r.pc = "verifying" /\ r.force = build[b].force
      /\ r.generation = build[b].generation /\ r.profile = build[b].profile
  BY <1>1, <1>2 DEF BuildSet
<1>5. build' \in [Builders -> BuildSet] /\ build'[b] = r
        /\ \A c \in Builders \ {b} : build'[c] = build[c]
  BY <1>3, <1>4 DEF IndexInv, IndexType
<1> HIDE DEF r
<1>6. UNCHANGED <<corpus, configured, index, lookup>>
  BY DEF VerifyDocument, Builds
<1>7. BuildSound(r)
  BY <1>1, <1>2, <1>4 DEF BuildSound, Reading, Writing
<1>8. IndexType' /\ RowsOf(index.rows, index.profile)'
  BY <1>5, <1>6 DEF IndexInv, IndexType, RowsOf
<1>9. \A c \in Builders : BuildSound(build[c])'
  BY <1>5, <1>6, <1>7 DEF IndexInv, BuildSound, RowsOf
<1>10. OneWriter'
  BY <1>1, <1>4, <1>5 DEF IndexInv, OneWriter, HoldsWriteLock
<1>11. LookupSound'
  BY <1>6 DEF IndexInv, LookupSound, AnswerIsOneIndex
<1> QED BY <1>8, <1>9, <1>10, <1>11 DEF IndexInv

\* The last look: what goes on to the commit has been scanned twice alike.
LEMMA CheckKeeps ==
  ASSUME IndexInv, NEW b \in Builders, CheckBuild(b)
  PROVE  IndexInv'
<1>1. CASE EndBuild(b)
  BY <1>1, BuildEnds DEF CheckBuild, Builds
<1>2. CASE ~ EndBuild(b)
  <2>1. /\ build[b].pc = "verifying" /\ build' = [build EXCEPT ![b].pc = "committing"]
        /\ UNCHANGED <<corpus, configured, index, lookup>>
        /\ build[b].verified = build[b].scan /\ Scanned(build[b].verified)
    BY <1>2 DEF CheckBuild, Builds
  <2>2. StillCurrent(b) /\ \A c \in Builders \ {b} : ~ HoldsWriteLock(c)
    BY <2>1, BuildFields DEF BuildSound, Writing, StillCurrent, IndexInv, OneWriter, HoldsWriteLock
  <2> QED BY <2>1, <2>2, NextPhaseKeeps DEF Reading, Writing
<1> QED BY <1>1, <1>2

LEMMA RowProfile ==
  ASSUME NEW text, NEW profile
  PROVE  Row(text, profile) = None \/ Row(text, profile).profile = profile
<1>1. CASE text = None
  BY <1>1 DEF Row
<1>2. CASE text # None
  <2>1. Row(text, profile) = [text |-> text, profile |-> profile]
    BY <1>2 DEF Row
  <2> QED BY <2>1
<1> QED BY <1>1, <1>2

\* A publication: what was not rewritten is what the scan found, of the build's profile.
LEMMA CommitPublishes ==
  ASSUME IndexInv, NEW b \in Builders, CommitBuild(b), index' # index
  PROVE  /\ build[b].pc = "committing"
         /\ index'.profile = build[b].profile /\ build[b].profile \in Profiles
         /\ index'.generation = index.generation + 1
         /\ index'.rows = [d \in Documents |-> Row(build[b].scan[d], build[b].profile)]
         /\ index'.rows \in [Documents -> RowSet] /\ RowsOf(index'.rows, index'.profile)
         /\ build' = [build EXCEPT ![b].pc = "over"]
         /\ DOMAIN index' = {"generation", "profile", "rows"}
<1> DEFINE me == build[b]
           rewritten(d) == me.force \/ TextOf(me.existing[d]) # me.scan[d]
           rows == [d \in Documents |-> IF rewritten(d) THEN Row(me.scan[d], me.profile)
                                                        ELSE index.rows[d]]
<1>1. /\ me \in BuildSet /\ BuildSound(me) /\ me.pc = "committing"
      /\ index.rows \in [Documents -> RowSet] /\ index.generation \in Nat
  BY BuildFields DEF CommitBuild, Builds
<1>2. /\ me.verified = me.scan /\ Scanned(me.verified)
      /\ build' = [build EXCEPT ![b].pc = "over"]
      /\ index' = [generation |-> me.generation + 1, profile |-> me.profile, rows |-> rows]
  BY <1>1 DEF BuildSound, CommitBuild, EndBuild
<1>3. /\ me.profile \in Profiles /\ me.generation = index.generation
      /\ me.existing = index.rows /\ (~ me.force => RowsOf(me.existing, me.profile))
  BY <1>1 DEF BuildSound, Reading, Writing
<1>4. \A d \in Documents : me.scan[d] \in Texts \cup {None}
  <2>1. me.scan \in Seq(Texts \cup {None}) /\ Len(me.scan) = MaxDocuments
    BY <1>1, <1>2 DEF BuildSet, TextSeqs, Scanned
  <2> HIDE DEF me
  <2> QED BY <2>1, IndexAssumption, ElementOfSeq DEF Documents
<1>5. \A d \in Documents : Row(me.scan[d], me.profile) \in RowSet
  BY <1>3, <1>4 DEF Row, RowSet
<1>6. ASSUME NEW d \in Documents, ~ rewritten(d)
      PROVE  index.rows[d] = Row(me.scan[d], me.profile)
  <2>1. index.rows[d] \in RowSet /\ TextOf(index.rows[d]) = me.scan[d] /\ ~ me.force
    BY <1>1, <1>3, <1>6
  <2>2. CASE index.rows[d] = None
    BY <2>1, <2>2 DEF TextOf, Row
  <2>3. CASE index.rows[d] # None
    <3>1. PICK t \in Texts, p \in Profiles : index.rows[d] = [text |-> t, profile |-> p]
      BY <2>1, <2>3 DEF RowSet
    <3>2. p = me.profile
      BY <1>3, <2>1, <2>3, <3>1 DEF RowsOf
    <3>3. t = me.scan[d] /\ t # None
      BY <2>1, <2>3, <3>1, IndexAssumption DEF TextOf
    <3> QED BY <3>1, <3>2, <3>3 DEF Row
  <2> QED BY <2>2, <2>3
<1>7. rows = [d \in Documents |-> Row(me.scan[d], me.profile)]
  BY <1>6
<1>8. rows \in [Documents -> RowSet] /\ RowsOf(rows, me.profile)
  <2> HIDE DEF rows, me
  <2>1. \A d \in Documents : rows[d] = Row(me.scan[d], me.profile)
    BY <1>7
  <2>2. \A d \in Documents : rows[d] = None \/ rows[d].profile = me.profile
    BY <2>1, RowProfile
  <2> QED BY <1>5, <1>7, <2>2 DEF RowsOf
<1> HIDE DEF rows
<1> QED BY <1>1, <1>2, <1>3, <1>7, <1>8

LEMMA CommitKeeps ==
  ASSUME IndexInv, NEW b \in Builders, CommitBuild(b)
  PROVE  IndexInv'
<1>0. UNCHANGED <<corpus, configured, lookup>>
  BY DEF CommitBuild, Builds
<1>1. CASE EndBuild(b)
  BY <1>0, <1>1, BuildEnds
<1>2. CASE ~ EndBuild(b)
  <2>1. index'.generation = build[b].generation + 1 /\ build[b].pc = "committing"
    BY <1>2 DEF CommitBuild, Builds
  <2>2. build[b] \in BuildSet /\ BuildSound(build[b]) /\ index.generation \in Nat
    BY BuildFields
  <2>3. build[b].generation = index.generation /\ index' # index
    BY <2>1, <2>2 DEF BuildSound, Writing
  <2>4. /\ index'.profile \in Profiles /\ index'.generation = index.generation + 1
        /\ index'.rows \in [Documents -> RowSet] /\ RowsOf(index'.rows, index'.profile)
        /\ build' = [build EXCEPT ![b].pc = "over"]
    BY <2>3, CommitPublishes
  <2>5. index' \in [generation : Nat, profile : Profiles \cup {None},
                    rows : [Documents -> RowSet]]
    <3>1. \E rows : index' = [generation |-> index'.generation, profile |-> index'.profile,
                              rows |-> rows]
      BY <1>2 DEF CommitBuild
    <3> QED BY <2>2, <2>4, <3>1
  <2>6. /\ build' \in [Builders -> BuildSet] /\ build'[b].pc = "over"
        /\ build'[b].verified = build[b].verified
        /\ \A c \in Builders \ {b} : build'[c] = build[c]
    BY <2>2, <2>4 DEF IndexInv, IndexType, BuildSet
  <2>7. IndexType' /\ RowsOf(index.rows, index.profile)'
    BY <1>0, <2>4, <2>5, <2>6 DEF IndexInv, IndexType
  <2>8. ASSUME NEW c \in Builders PROVE BuildSound(build[c])'
    <3>1. CASE c = b
      BY <2>2, <2>6, <3>1 DEF BuildSound, Reading, Writing
    <3>2. CASE c # b
      <4>1. /\ build'[c] = build[c] /\ build[c] \in BuildSet /\ BuildSound(build[c])
            /\ build[c].pc \notin Writing
        BY <2>1, <2>6, <3>2, BuildFields DEF IndexInv, OneWriter, HoldsWriteLock, Writing
      <4>2. build[c].generation \in Nat
        BY <4>1 DEF BuildSet
      <4> QED BY <2>2, <2>4, <4>1, <4>2 DEF BuildSound, Reading, Writing, RowsOf
    <3> QED BY <3>1, <3>2
  <2>9. OneWriter'
    BY <2>6 DEF IndexInv, OneWriter, HoldsWriteLock
  <2>10. LookupSound'
    <3>1. lookup \in LookupSet /\ LookupSound
      BY DEF IndexInv, IndexType
    <3>2. lookup.generation \in Nat /\ (lookup.pin \in Pins => lookup.pin.generation \in Nat)
      BY <3>1 DEF LookupSet, Pins
    <3>3. lookup.generation <= index.generation
            /\ (lookup.pc \in {"dense", "searched", "dense again", "searched again"} =>
                  lookup.pin \in Pins /\ lookup.pin.generation <= index.generation)
      BY <3>1 DEF LookupSound
    <3>4. lookup.generation <= index'.generation
            /\ (lookup.pc \in {"dense", "searched", "dense again", "searched again"} =>
                  lookup.pin.generation <= index'.generation)
      <4> DEFINE g == index.generation  h == index'.generation
                 l == lookup.generation p == lookup.pin.generation
      <4>1. g \in Nat /\ h = g + 1 /\ l \in Nat /\ l <= g
        BY <2>2, <2>4, <3>2, <3>3
      <4>2. lookup.pc \in {"dense", "searched", "dense again", "searched again"} =>
              p \in Nat /\ p <= g
        BY <3>2, <3>3
      <4> HIDE DEF g, h, l, p
      <4>3. l <= h
        BY <4>1
      <4>4. p \in Nat /\ p <= g => p <= h
        BY <4>1
      <4> QED BY <4>2, <4>3, <4>4 DEF h, l, p
    <3> QED BY <1>0, <3>1, <3>3, <3>4 DEF LookupSound, AnswerIsOneIndex
  <2> QED BY <2>7, <2>8, <2>9, <2>10 DEF IndexInv
<1> QED BY <1>1, <1>2

-----------------------------------------------------------------------------
\* A step of the search keeps the rest; what it holds afterwards must be sound.
LEMMA LookupGoesOn ==
  ASSUME IndexInv, lookup' \in LookupSet, LookupSound',
         UNCHANGED <<corpus, configured, index, build>>
  PROVE  IndexInv'
<1>1. IndexType' /\ RowsOf(index.rows, index.profile)'
  BY DEF IndexInv, IndexType, RowsOf
<1>2. (\A b \in Builders : BuildSound(build[b]))' /\ OneWriter'
  BY DEF IndexInv, BuildSound, RowsOf, OneWriter, HoldsWriteLock
<1> QED BY <1>1, <1>2 DEF IndexInv

\* Two pins of one generation and one profile are one.
LEMMA OnePin ==
  ASSUME NEW p \in Pins, NEW q \in Pins, p.generation = q.generation, p.profile = q.profile
  PROVE  p = q
BY DEF Pins

LEMMA AnswerKeeps ==
  ASSUME IndexInv, NEW what \in SUBSET Pins, Answered(what),
         UNCHANGED <<corpus, configured, index, build>>,
         \A p, q \in what : p = q /\ p.profile = lookup.profile
  PROVE  IndexInv'
<1> DEFINE r == [lookup EXCEPT !.pc = "answered", !.pin = None, !.found = what, !.extra = {}]
<1>1. lookup \in LookupSet /\ LookupSound
  BY DEF IndexInv, IndexType
<1>2. /\ r \in LookupSet /\ r.pc = "answered" /\ r.found = what
      /\ r.profile = lookup.profile /\ r.generation = lookup.generation
  BY <1>1 DEF LookupSet
<1>3. lookup' = r
  BY DEF Answered
<1> HIDE DEF r
<1>4. LookupSound'
  BY <1>1, <1>2, <1>3 DEF LookupSound, AnswerIsOneIndex
<1> QED BY <1>2, <1>3, <1>4, LookupGoesOn

\* The parts of the search's record.
LEMMA LookupFields ==
  ASSUME IndexInv
  PROVE  /\ lookup \in LookupSet /\ LookupSound /\ lookup.generation \in Nat
         /\ lookup.found \in SUBSET Pins /\ lookup.extra \in SUBSET Pins
         /\ index.generation \in Nat /\ index.profile \in Profiles \cup {None}
         /\ \A p \in Pins : p.generation \in Nat
<1>1. lookup \in LookupSet /\ LookupSound
  BY DEF IndexInv, IndexType
<1> QED BY <1>1 DEF IndexInv, IndexType, LookupSet, Pins

\* What was kept of the original query is of one pin.
LEMMA FoundIsOne ==
  ASSUME IndexInv,
         lookup.pc \in {"asked", "valid", "dense", "searched", "rewriting", "asked again",
                        "valid again", "dense again", "searched again"}
  PROVE  \A p, q \in lookup.found : p = q /\ p.profile = lookup.profile
<1>1. lookup.found \in SUBSET Pins /\ LookupSound
  BY LookupFields
<1>2. \A p \in lookup.found : p.generation = lookup.generation /\ p.profile = lookup.profile
  BY <1>1 DEF LookupSound
<1> QED BY <1>1, <1>2, OnePin

LEMMA BeginLookupKeeps ==
  ASSUME IndexInv, BeginLookup
  PROVE  IndexInv'
<1>1. PICK profile \in Profiles :
        lookup' = [NoLookup EXCEPT !.pc = "asked", !.profile = profile,
                                   !.generation = index.generation]
  BY DEF BeginLookup
<1>2. /\ lookup' \in LookupSet /\ lookup'.pc = "asked" /\ lookup'.found = {}
      /\ lookup'.extra = {} /\ lookup'.generation = index.generation
  BY <1>1, LookupFields DEF NoLookup, LookupSet
<1>3. UNCHANGED <<corpus, configured, index, build>>
  BY DEF BeginLookup, LooksUp
<1>4. index.generation <= index.generation
  BY NatOrder, LookupFields, Zenon
<1>5. LookupSound'
  BY <1>2, <1>3, <1>4 DEF LookupSound, AnswerIsOneIndex
<1> QED BY <1>2, <1>3, <1>5, LookupGoesOn

\* A step that changes only how far the search is.
LEMMA NextStepKeeps ==
  ASSUME IndexInv, NEW to, UNCHANGED <<corpus, configured, index, build>>, NextStep(to),
         \/ lookup.pc = "asked" /\ to = "valid"
         \/ lookup.pc = "rewriting" /\ to = "asked again"
         \/ lookup.pc = "asked again" /\ to = "valid again"
  PROVE  IndexInv'
<1> DEFINE r == [lookup EXCEPT !.pc = to]
<1>1. lookup \in LookupSet /\ LookupSound
  BY LookupFields
<1>2. /\ r \in LookupSet /\ r.pc = to /\ r.found = lookup.found /\ r.extra = lookup.extra
      /\ r.profile = lookup.profile /\ r.generation = lookup.generation
  BY <1>1 DEF LookupSet
<1>3. lookup' = r
  BY DEF NextStep
<1> HIDE DEF r
<1>4. LookupSound'
  BY <1>1, <1>2, <1>3 DEF LookupSound, AnswerIsOneIndex
<1> QED BY <1>2, <1>3, <1>4, LookupGoesOn

LEMMA ValidateKeeps ==
  ASSUME IndexInv, NEW from, NEW to, ValidateProfile(from, to),
         \/ from = "asked" /\ to = "valid"
         \/ from = "asked again" /\ to = "valid again"
  PROVE  IndexInv'
<1>1. lookup.pc = from /\ UNCHANGED <<corpus, configured, index, build>>
  BY DEF ValidateProfile, LooksUp
<1>2. CASE index.profile = lookup.profile
  BY <1>1, <1>2, NextStepKeeps DEF ValidateProfile
<1>3. CASE index.profile # lookup.profile
  <2>1. Answered(lookup.found) /\ lookup.found \in SUBSET Pins
    BY <1>3, LookupFields DEF ValidateProfile
  <2> QED BY <1>1, <2>1, FoundIsOne, AnswerKeeps
<1> QED BY <1>2, <1>3

LEMMA PinKeeps ==
  ASSUME IndexInv, NEW from, NEW to, PinSnapshot(from, to),
         \/ from = "valid" /\ to = "dense"
         \/ from = "valid again" /\ to = "dense again"
  PROVE  IndexInv'
<1>1. lookup.pc = from /\ UNCHANGED <<corpus, configured, index, build>>
  BY DEF PinSnapshot, LooksUp
<1>2. CASE index.profile # lookup.profile
  <2>1. Answered(lookup.found) /\ lookup.found \in SUBSET Pins
    BY <1>2, LookupFields DEF PinSnapshot
  <2> QED BY <1>1, <2>1, FoundIsOne, AnswerKeeps
<1>3. CASE index.profile = lookup.profile
  <2> DEFINE pin == [generation |-> index.generation, profile |-> index.profile]
             r == [lookup EXCEPT !.pc = to, !.pin = pin, !.extra = @ \cup {pin}]
  <2>1. /\ lookup \in LookupSet /\ LookupSound /\ lookup.extra = {}
        /\ index.generation \in Nat /\ index.profile \in Profiles \cup {None}
    BY <1>1, LookupFields DEF LookupSound
  <2>2. /\ pin \in Pins /\ pin.generation = index.generation /\ pin.profile = index.profile
    BY <2>1 DEF Pins
  <2>3. lookup' = r
    BY <1>3 DEF PinSnapshot
  <2> HIDE DEF pin
  <2>4. /\ r \in LookupSet /\ r.pc = to /\ r.pin = pin /\ r.extra = {pin}
        /\ r.found = lookup.found /\ r.profile = lookup.profile
        /\ r.generation = lookup.generation
    BY <2>1, <2>2 DEF LookupSet
  <2> HIDE DEF r
  <2>5. lookup.generation <= index.generation /\ pin.generation <= index.generation
    <3>1. lookup.generation <= index.generation
      BY <2>1 DEF LookupSound
    <3>2. index.generation <= index.generation
      BY <2>1, NatOrder, Zenon
    <3> QED BY <2>2, <3>1, <3>2, Zenon
  <2>6. LookupSound'
    BY <1>1, <1>3, <2>1, <2>2, <2>3, <2>4, <2>5 DEF LookupSound, AnswerIsOneIndex
  <2> QED BY <1>1, <2>3, <2>4, <2>6, LookupGoesOn
<1> QED BY <1>2, <1>3

LEMMA WordsKeep ==
  ASSUME IndexInv, NEW from, NEW to, SearchWords(from, to),
         \/ from = "dense" /\ to = "searched"
         \/ from = "dense again" /\ to = "searched again"
  PROVE  IndexInv'
<1> DEFINE r == [lookup EXCEPT !.pc = to, !.extra = @ \cup {lookup.pin}]
<1>1. lookup.pc = from /\ UNCHANGED <<corpus, configured, index, build>> /\ lookup' = r
  BY DEF SearchWords, LooksUp
<1>2. lookup \in LookupSet /\ LookupSound /\ lookup.pin \in Pins /\ lookup.extra = {lookup.pin}
  BY <1>1, LookupFields DEF LookupSound
<1>3. /\ r \in LookupSet /\ r.pc = to /\ r.pin = lookup.pin /\ r.extra = {lookup.pin}
      /\ r.found = lookup.found /\ r.profile = lookup.profile
      /\ r.generation = lookup.generation
  BY <1>2 DEF LookupSet
<1> HIDE DEF r
<1>4. LookupSound'
  BY <1>1, <1>2, <1>3 DEF LookupSound, AnswerIsOneIndex
<1> QED BY <1>1, <1>3, <1>4, LookupGoesOn

\* The original's passages come from one pin; if the index has not moved on since the
\* search began, from the generation it began with.
LEMMA OriginalKeeps ==
  ASSUME IndexInv, KeepOriginal
  PROVE  IndexInv'
<1>1. lookup.pc = "searched" /\ UNCHANGED <<corpus, configured, index, build>>
  BY DEF KeepOriginal, LooksUp
<1>2. /\ lookup \in LookupSet /\ LookupSound /\ lookup.extra = {lookup.pin}
      /\ lookup.pin \in Pins /\ lookup.pin.profile = lookup.profile
      /\ lookup.generation <= lookup.pin.generation /\ lookup.pin.generation <= index.generation
  BY <1>1, LookupFields DEF LookupSound
<1>3. CASE Answered(lookup.extra)
  <2>1. lookup.extra \in SUBSET Pins /\ \A p, q \in lookup.extra : p = q /\ p.profile = lookup.profile
    BY <1>2
  <2> QED BY <1>1, <1>3, <2>1, AnswerKeeps
<1>4. CASE ~ Answered(lookup.extra)
  <2> DEFINE r == [lookup EXCEPT !.pc = "rewriting", !.found = lookup.extra, !.extra = {}]
  <2>1. lookup' = r /\ index.generation = lookup.generation
    BY <1>4 DEF KeepOriginal
  <2>2. lookup.pin.generation = lookup.generation
    <3> DEFINE p == lookup.pin.generation  g == index.generation
    <3>1. p \in Nat /\ g \in Nat /\ g <= p /\ p <= g
      BY <1>2, <2>1, LookupFields
    <3>2. p = g
      <4> HIDE DEF p, g
      <4> QED BY <3>1
    <3> QED BY <2>1, <3>2
  <2>3. /\ r \in LookupSet /\ r.pc = "rewriting" /\ r.found = {lookup.pin} /\ r.extra = {}
        /\ r.profile = lookup.profile /\ r.generation = lookup.generation
    BY <1>2 DEF LookupSet
  <2> HIDE DEF r
  <2>4. LookupSound'
    BY <1>1, <1>2, <2>1, <2>2, <2>3 DEF LookupSound, AnswerIsOneIndex
  <2> QED BY <1>1, <2>1, <2>3, <2>4, LookupGoesOn
<1> QED BY <1>3, <1>4

LEMMA RewriteKeeps ==
  ASSUME IndexInv, RewriteQuery
  PROVE  IndexInv'
<1>1. lookup.pc = "rewriting" /\ UNCHANGED <<corpus, configured, index, build>>
  BY DEF RewriteQuery, LooksUp
<1>2. CASE NextStep("asked again")
  BY <1>1, <1>2, NextStepKeeps
<1>3. CASE Answered(lookup.found)
  BY <1>1, <1>3, FoundIsOne, LookupFields, AnswerKeeps
<1> QED BY <1>2, <1>3 DEF RewriteQuery

\* The supplement is merged only if the generation is that of the original.
LEMMA MergeKeeps ==
  ASSUME IndexInv, MergeSupplement
  PROVE  IndexInv'
<1>1. lookup.pc = "searched again" /\ UNCHANGED <<corpus, configured, index, build>>
  BY DEF MergeSupplement, LooksUp
<1>2. CASE index.generation # lookup.generation
  BY <1>1, <1>2, FoundIsOne, LookupFields, AnswerKeeps DEF MergeSupplement
<1>3. CASE index.generation = lookup.generation
  <2> DEFINE what == lookup.found \cup lookup.extra
  <2>1. /\ lookup \in LookupSet /\ lookup.extra = {lookup.pin}
        /\ lookup.pin \in Pins /\ lookup.pin.profile = lookup.profile
        /\ lookup.generation <= lookup.pin.generation /\ lookup.pin.generation <= index.generation
        /\ \A p \in lookup.found : p.generation = lookup.generation /\ p.profile = lookup.profile
    BY <1>1, LookupFields DEF LookupSound
  <2>2. lookup.pin.generation = lookup.generation
    <3> DEFINE p == lookup.pin.generation  g == lookup.generation
    <3>1. p \in Nat /\ g \in Nat /\ g <= p /\ p <= g
      BY <1>3, <2>1, LookupFields
    <3>2. p = g
      <4> HIDE DEF p, g
      <4> QED BY <3>1
    <3> QED BY <3>2
  <2>3. what \in SUBSET Pins
          /\ \A p \in what : p.generation = lookup.generation /\ p.profile = lookup.profile
    BY <2>1, <2>2, LookupFields
  <2>4. Answered(what)
    BY <1>3 DEF MergeSupplement
  <2> HIDE DEF what
  <2> QED BY <1>1, <2>3, <2>4, OnePin, AnswerKeeps
<1> QED BY <1>2, <1>3

LEMMA EndLookupKeeps ==
  ASSUME IndexInv, EndLookup
  PROVE  IndexInv'
<1>1. lookup' = NoLookup /\ UNCHANGED <<corpus, configured, index, build>>
  BY DEF EndLookup, LooksUp
<1>2. /\ NoLookup \in LookupSet /\ NoLookup.pc = "idle" /\ NoLookup.generation = 0
  BY DEF NoLookup, LookupSet
<1>3. 0 <= index.generation
  BY NatOrder, LookupFields, Zenon
<1>4. LookupSound'
  BY <1>1, <1>2, <1>3 DEF LookupSound, AnswerIsOneIndex
<1> QED BY <1>1, <1>2, <1>4, LookupGoesOn

-----------------------------------------------------------------------------
\* The Workspace and the settings change under builds and searches that keep what they read.
LEMMA OutsideKeeps ==
  ASSUME IndexInv, corpus' \in [Documents -> Texts \cup {None}], configured' \in Profiles,
         UNCHANGED <<index, build, lookup>>
  PROVE  IndexInv'
<1>1. IndexType' /\ RowsOf(index.rows, index.profile)'
  BY DEF IndexInv, IndexType, RowsOf
<1>2. (\A b \in Builders : BuildSound(build[b]))' /\ OneWriter'
  BY DEF IndexInv, BuildSound, RowsOf, OneWriter, HoldsWriteLock
<1>3. LookupSound'
  BY DEF IndexInv, LookupSound, AnswerIsOneIndex
<1> QED BY <1>1, <1>2, <1>3 DEF IndexInv

LEMMA EditKeeps ==
  ASSUME IndexInv, EditCorpus
  PROVE  IndexInv'
<1>1. corpus' \in [Documents -> Texts \cup {None}]
  BY DEF EditCorpus, IndexInv, IndexType
<1>2. configured' \in Profiles /\ UNCHANGED <<index, build, lookup>>
  BY DEF EditCorpus, IndexInv, IndexType
<1> QED BY <1>1, <1>2, OutsideKeeps

LEMMA IndexInitInv == IndexInit => IndexInv
<1> SUFFICES ASSUME IndexInit PROVE IndexInv
  OBVIOUS
<1>1. index.rows = [d \in Documents |-> None] /\ index.generation = 0 /\ index.profile = None
  BY DEF IndexInit
<1>2. index \in [generation : Nat, profile : Profiles \cup {None}, rows : [Documents -> RowSet]]
  BY DEF IndexInit, RowSet
<1>3. RowsOf(index.rows, index.profile)
  BY <1>1 DEF RowsOf
<1>4. NoLookup \in LookupSet /\ NoLookup.pc = "idle" /\ NoLookup.generation = 0
  BY DEF NoLookup, LookupSet
<1>5. corpus \in [Documents -> Texts \cup {None}] /\ configured \in Profiles
  BY DEF IndexInit
<1>6. build \in [Builders -> BuildSet] /\ \A b \in Builders : build[b] = NoBuild
  BY NoBuildType DEF IndexInit
<1>7. NoBuild.pc = "new"
  BY DEF NoBuild
<1>8. \A b \in Builders : BuildSound(build[b])
  BY <1>6, <1>7, NoBuildType, IndexAssumption DEF BuildSound, Reading, Writing
<1>9. OneWriter
  BY <1>6, <1>7 DEF OneWriter, HoldsWriteLock
<1>10. lookup = NoLookup
  BY DEF IndexInit
<1>11. LookupSound
  <2>1. 0 <= 0
    OBVIOUS
  <2>2. lookup.generation <= index.generation
    BY <1>1, <1>4, <1>10, <2>1
  <2> QED BY <1>4, <1>10, <2>2 DEF LookupSound, AnswerIsOneIndex
<1> QED BY <1>2, <1>3, <1>4, <1>5, <1>6, <1>8, <1>9, <1>10, <1>11 DEF IndexInv, IndexType

LEMMA IndexStep == IndexInv /\ [IndexNext]_indexVars => IndexInv'
<1> SUFFICES ASSUME IndexInv, [IndexNext]_indexVars PROVE IndexInv'
  OBVIOUS
<1>1. CASE EditCorpus
  BY <1>1, EditKeeps
<1>2. CASE ConfigureIndex
  <2>1. configured' \in Profiles /\ UNCHANGED <<corpus, index, build, lookup>>
    BY <1>2 DEF ConfigureIndex
  <2>2. corpus' \in [Documents -> Texts \cup {None}]
    BY <2>1 DEF IndexInv, IndexType
  <2> QED BY <2>1, <2>2, OutsideKeeps
<1>3. ASSUME NEW b \in Builders, NEW force \in BOOLEAN, AdmitBuild(b, force) PROVE IndexInv'
  BY <1>3, AdmitKeeps
<1>4. ASSUME NEW b \in Builders, CancelBuild(b) PROVE IndexInv'
  <2>1. UNCHANGED <<corpus, configured, index, build, lookup>>
    BY <1>4 DEF CancelBuild
  <2>2. corpus' \in [Documents -> Texts \cup {None}] /\ configured' \in Profiles
    BY <2>1 DEF IndexInv, IndexType
  <2> QED BY <2>1, <2>2, OutsideKeeps
<1>5. ASSUME NEW b \in Builders,
             OpenBuild(b) \/ ReadIndex(b) \/ ScanDocument(b) \/ EmbedDocuments(b)
               \/ BeginPublication(b) \/ VerifyDocument(b) \/ CheckBuild(b) \/ CommitBuild(b)
      PROVE  IndexInv'
  BY <1>5, OpenKeeps, ReadKeeps, ScanKeeps, EmbedKeeps, BeginKeeps, VerifyKeeps, CheckKeeps,
     CommitKeeps
<1>6. CASE BeginLookup \/ KeepOriginal \/ RewriteQuery \/ MergeSupplement \/ EndLookup
  BY <1>6, BeginLookupKeeps, OriginalKeeps, RewriteKeeps, MergeKeeps, EndLookupKeeps
<1>7. CASE ValidateProfile("asked", "valid") \/ ValidateProfile("asked again", "valid again")
  BY <1>7, ValidateKeeps
<1>8. CASE PinSnapshot("valid", "dense") \/ PinSnapshot("valid again", "dense again")
  BY <1>8, PinKeeps
<1>9. CASE SearchWords("dense", "searched") \/ SearchWords("dense again", "searched again")
  BY <1>9, WordsKeep
<1>10. CASE UNCHANGED indexVars
  <2>1. corpus' \in [Documents -> Texts \cup {None}] /\ configured' \in Profiles
          /\ UNCHANGED <<index, build, lookup>>
    BY <1>10 DEF IndexInv, IndexType, indexVars
  <2> QED BY <2>1, OutsideKeeps
<1> QED BY <1>1, <1>2, <1>3, <1>4, <1>5, <1>6, <1>7, <1>8, <1>9, <1>10 DEF IndexNext

\* What is known of builds, publications and searches holds in every state: no build has a
\* generation without its rows, no two publish at once, and no search mixes generations.
THEOREM IndexIsConsistent == IndexSpec => []IndexInv
BY IndexInitInv, IndexStep, PTL DEF IndexSpec

\* Every answer is of one generation of the index and of the profile its query was embedded
\* with, for any number of builds, files and profiles.
THEOREM AnswersAreOneIndex == IndexSpec => []AnswerIsOneIndex
<1>1. IndexInv => AnswerIsOneIndex
  BY DEF IndexInv, LookupSound
<1> QED BY <1>1, IndexIsConsistent, PTL

\* Only a publication changes the index, and it publishes what one build found.
THEOREM PublicationsAreOneBuild == IndexSpec => PublicationIsOneBuild
<1> DEFINE Published == index' # index => \E b \in Builders :
             /\ build[b].pc = "committing"
             /\ index'.profile = build[b].profile /\ index'.generation = index.generation + 1
             /\ index'.rows = [d \in Documents |-> Row(build[b].scan[d], index'.profile)]
<1>1. IndexInv /\ [IndexNext]_indexVars => [Published]_indexVars
  <2> SUFFICES ASSUME IndexInv, IndexNext, index' # index PROVE Published
    BY DEF indexVars
  <2>1. PICK b \in Builders : CommitBuild(b)
    BY DEF IndexNext, EditCorpus, ConfigureIndex, AdmitBuild, CancelBuild, OpenBuild,
           ReadIndex, ScanDocument, EmbedDocuments, BeginPublication, VerifyDocument,
           CheckBuild, EndBuild, LooksUp, BeginLookup, ValidateProfile, PinSnapshot, SearchWords,
           KeepOriginal, RewriteQuery, MergeSupplement, EndLookup
  <2>2. /\ build[b].pc = "committing"
        /\ index'.profile = build[b].profile /\ index'.generation = index.generation + 1
        /\ index'.rows = [d \in Documents |-> Row(build[b].scan[d], build[b].profile)]
    BY <2>1, CommitPublishes
  <2> QED BY <2>2
<1> QED BY <1>1, IndexIsConsistent, PTL DEF IndexSpec, PublicationIsOneBuild
=============================================================================
