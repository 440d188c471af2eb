-------------------------- MODULE RunRecovery_proofs --------------------------
(***************************************************************************)
(* Theorems: a tool acts only while its task waits for it; a Continue      *)
(* follows only completed, recorded and still calls; the checkpoint of     *)
(* recovery is the source the process died with, unless a change since     *)
(* left no newer time or came after the look at the times; and every call  *)
(* has its answer, unless it raised past the executor of a Run that failed.*)
(***************************************************************************)
EXTENDS RunRecovery, SequenceTheorems, FiniteSetTheorems, TLAPS

\* The largest of a set of numbers that has a bound is one of them.
LEMMA MaxIn ==
  ASSUME NEW n \in Nat, NEW T \in SUBSET (0 .. n), T # {}
  PROVE  Max(T) \in T /\ \A y \in T : y <= Max(T)
<1> DEFINE U == {n - x : x \in T}
<1>1. U \subseteq Nat /\ U # {}
  OBVIOUS
<1>2. \E u \in U : \A v \in U : ~ (<<v, u>> \in OpToRel(<, Nat))
  BY <1>1, NatLessThanWellFounded, WFMin
<1>3. PICK u \in U : \A v \in U : ~ (v < u)
  BY <1>1, <1>2 DEF OpToRel
<1>4. PICK x \in T : u = n - x
  OBVIOUS
<1>5. \A y \in T : y <= x
  BY <1>3, <1>4
<1>6. \E z \in T : \A y \in T : z >= y
  BY <1>5
<1> QED BY <1>6 DEF Max

\* A sequence of a set's elements, all of them, if the set is finite.
LEMMA SeqOfSet ==
  ASSUME NEW S, IsFiniteSet(S)
  PROVE  /\ SetToSeq(S) \in Seq(S)
         /\ \A x \in S : \E n \in DOMAIN SetToSeq(S) : SetToSeq(S)[n] = x
<1>1. Cardinality(S) \in Nat /\ \E f : f \in Bijection(1 .. Cardinality(S), S)
  BY FS_CardinalityType DEF ExistsBijection
<1>2. \E f \in [1 .. Cardinality(S) -> S] : IsInjective(f)
  BY <1>1 DEF Bijection, Injection
<1>3. SetToSeq(S) \in [1 .. Cardinality(S) -> S] /\ IsInjective(SetToSeq(S))
  BY <1>2 DEF SetToSeq
<1>4. SetToSeq(S) \in Injection(1 .. Cardinality(S), S)
  BY <1>3 DEF Injection
<1>5. Cardinality(1 .. Cardinality(S)) = Cardinality(S)
  <2>1. PICK n \in Nat : n = Cardinality(S)
    BY <1>1
  <2>2. Cardinality(1 .. n) = IF 1 > n THEN 0 ELSE n - 1 + 1
    BY FS_Interval
  <2> QED BY <2>1, <2>2
<1>6. SetToSeq(S) \in Surjection(1 .. Cardinality(S), S)
  BY <1>4, <1>5, FS_Injection
<1>7. \A x \in S : \E n \in 1 .. Cardinality(S) : SetToSeq(S)[n] = x
  BY <1>6 DEF Surjection
<1> QED BY <1>1, <1>3, <1>7, IsASeq

-----------------------------------------------------------------------------
Args    == Calls \cup Contents \cup {None} \cup Seq(Calls)
FactTypes == {"admitted", "started", "checkpoint", "request", "response", "prepared",
              "call.completed", "call.unknown", "call.abandoned", "loop", "completed", "failed",
              "interrupted"}
FactSet == [type : FactTypes, run : Nat, arg : Args]
Busy    == {"next", "exec", "stop", "post"}
Working == Busy \cup {"queued", "first", "turn", "model", "park", "parkNow", "complete", "fail",
                      "interrupt", "created", "abandon"}
TaskSet == [pc : Working \cup {"idle", "prompt", "continue", "measured", "recovered"},
            call : Calls \cup {None}, todo : Seq(Calls)]
ToolSet == [call : Calls \cup {None}, acted : BOOLEAN]
Places  == DOMAIN log

RType ==
  /\ log \in Seq(FactSet) /\ rows \in Seq(Nat) /\ task \in TaskSet /\ tool \in ToolSet
  /\ content \in Contents /\ touched \in BOOLEAN /\ up \in BOOLEAN /\ crashes \in Nat
  /\ unseen \subseteq Calls /\ IsFiniteSet(Advertised) /\ Advertised \subseteq Calls

\* Facts belong to Runs that exist; while a task works, its Run has no terminal fact.
Known    == \A i \in Places : log[i].run <= Latest
OpenRun  == task.pc \in Working =>
              Latest >= 1 /\ \A i \in Places : log[i].run = Latest => log[i].type \notin Terminals

\* Every call was advertised; it is prepared by one Run, which completes it, and an own call
\* is not abandoned while its Run is the latest.
CallFacts ==
  /\ \A i \in Places :
       log[i].type \in {"prepared", "call.completed", "call.abandoned"} => log[i].arg \in Advertised
  /\ \A i, j \in Places :
       /\ log[i].type = "prepared" /\ log[j].type = "call.completed" /\ log[i].arg = log[j].arg
       => log[i].run = log[j].run
  /\ \A i, j \in Places :
       /\ log[i].type = "prepared" /\ log[j].type = "call.abandoned" /\ log[i].run = Latest
       => log[i].arg # log[j].arg

\* What waits for its dispatch has no fact yet; the call that is executed is this Run's.
TaskCalls ==
  /\ task.pc \in Busy =>
       /\ IsInjective(task.todo)
       /\ \A n \in DOMAIN task.todo :
            /\ task.todo[n] \in Advertised
            /\ \A i \in Places :
                 log[i].type \in {"prepared", "call.completed", "call.abandoned"} =>
                   log[i].arg # task.todo[n]
  /\ task.pc \in {"exec", "stop"} =>
       /\ task.call \in Advertised /\ \A n \in DOMAIN task.todo : task.todo[n] # task.call
       /\ \A i \in Places : log[i].type = "prepared" /\ log[i].arg = task.call => log[i].run = Latest
  /\ task.pc \in {"created", "abandon"} =>
       \A i \in Places : log[i].type = "prepared" => log[i].run # Latest

\* A completed call acts no more; what it did and no checkpoint has recorded comes after the
\* last checkpoint.
Stillness ==
  /\ tool.call # None => \A i \in Places : log[i].type = "call.completed" => log[i].arg # tool.call
  /\ \A i, j \in Places :
       /\ log[i].type = "call.completed" /\ log[i].arg \in unseen /\ i < j
       => log[j].type # "checkpoint"

\* A tool belongs to the task that waits for it, until the process is lost for the first time.
ToolWaits ==
  crashes = 0 => /\ up
                 /\ tool.call # None => task.pc \in {"exec", "stop"} /\ tool.call = task.call

\* What was checked before a Continue is true until it is admitted.
Checked ==
  task.pc = "continue" =>
    /\ \A i \in Of(Latest) \cap Typed({"call.completed"}) :
         i > LastCheckpoint(Latest) => log[i].arg \in ReadOnly
    /\ OwnCalls(Latest, {"prepared"}) \subseteq ReadOnly \cup Resolved

\* What changed the source since the process was lost, if anything did; when it left a newer
\* time this is still seen, and was seen before recovery went on.
LossIsSeen ==
  ~ up => /\ gap \in {"none", "newer", "untraced", "late"}
          /\ gap = "none" => content = left
          /\ gap = "newer" => touched /\ task.pc # "measured"

RInv == /\ RType /\ Known /\ OpenRun /\ CallFacts /\ TaskCalls /\ Stillness
        /\ ToolWaits /\ Checked /\ LossIsSeen

\* The log keeps its facts and gets some of S.
Grown(S) ==
  /\ log' \in Seq(FactSet) /\ Len(log) <= Len(log')
  /\ \A i \in Places : i \in DOMAIN log' /\ log'[i] = log[i]
  /\ \A i \in DOMAIN log' : i \notin Places => log'[i] \in S /\ i > Len(log)

-----------------------------------------------------------------------------
LEMMA EmitGrows ==
  ASSUME RType, NEW facts \in Seq(FactSet), log' = log \o facts, NEW S,
         \A i \in DOMAIN facts : facts[i] \in S
  PROVE  Grown(S)
<1>1. /\ log \in Seq(FactSet) /\ log' \in Seq(FactSet) /\ Len(log') = Len(log) + Len(facts)
      /\ Len(log) \in Nat /\ Len(facts) \in Nat
      /\ \A i \in 1 .. Len(log') : log'[i] = IF i <= Len(log) THEN log[i] ELSE facts[i - Len(log)]
  BY ConcatProperties, LenProperties DEF RType
<1>2. DOMAIN log = 1 .. Len(log) /\ DOMAIN log' = 1 .. Len(log') /\ DOMAIN facts = 1 .. Len(facts)
  BY <1>1, LenProperties
<1>3. Len(log) <= Len(log')
  BY <1>1
<1>4. \A i \in Places : i \in DOMAIN log' /\ log'[i] = log[i]
  BY <1>1, <1>2 DEF Places
<1>5. ASSUME NEW i \in DOMAIN log', i \notin Places PROVE log'[i] \in S /\ i > Len(log)
  <2>1. i \in 1 .. Len(log') /\ ~ (i <= Len(log)) /\ i - Len(log) \in 1 .. Len(facts)
    BY <1>1, <1>2, <1>5 DEF Places
  <2> QED BY <1>1, <1>2, <2>1
<1> QED BY <1>1, <1>3, <1>4, <1>5 DEF Grown

\* One fact of the Run at work.
LEMMA EmitOne ==
  ASSUME RType, NEW f \in FactSet, log' = log \o <<f>>
  PROVE  Grown({f}) /\ Len(log') = Len(log) + 1
<1>1. <<f>> \in Seq(FactSet) /\ Len(<<f>>) = 1 /\ \A i \in DOMAIN <<f>> : <<f>>[i] \in {f}
  OBVIOUS
<1> QED BY <1>1, EmitGrows, ConcatProperties DEF RType

LEMMA StandStill ==
  ASSUME RType, UNCHANGED log
  PROVE  Grown({})
<1>1. \A i \in DOMAIN log : i \in 1 .. Len(log) /\ Len(log) \in Nat
  BY LenProperties DEF RType
<1> QED BY <1>1 DEF RType, Grown, Places

Loud == {"response", "prepared", "call.completed", "call.abandoned"}

\* What is advertised, fact for fact.
LEMMA AdvertisedFacts ==
  Advertised = {c \in UNION {Range(log[i].arg) : i \in Places} :
                  \E i \in Places : log[i].type = "response" /\ c \in Range(log[i].arg)}
BY DEF Advertised, Typed, Places

LEMMA QuietLog ==
  ASSUME RInv, NEW S, Grown(S), \A f \in S : f.type \notin Loud
  PROVE  /\ Advertised' = Advertised
         /\ \A i \in Places' : log'[i].type \in Loud => i \in Places /\ log'[i] = log[i]
<1>1. \A i \in Places' : log'[i].type \in Loud => i \in Places /\ log'[i] = log[i]
  BY DEF Grown, Places
<1>2. \A i \in Places : i \in Places' /\ log'[i] = log[i]
  BY DEF Grown, Places
<1>3. Typed({"response"})' = Typed({"response"})
  BY <1>1, <1>2 DEF Typed, Places, Loud
<1>4. \A i \in Typed({"response"}) : log'[i] = log[i]
  BY <1>2 DEF Typed, Places
<1>5. Advertised' = Advertised
  BY <1>3, <1>4 DEF Advertised
<1> QED BY <1>1, <1>5

\* A step that emits no fact about calls keeps what the facts say of them.
LEMMA QuietStep ==
  ASSUME RInv, NEW S, Grown(S), \A f \in S : f.run = Latest /\ f.type \notin Loud,
         UNCHANGED rows, task' \in TaskSet, tool' \in ToolSet, content' \in Contents,
         touched' \in BOOLEAN, up' \in BOOLEAN, crashes' \in Nat, unseen' \subseteq Calls,
         task'.pc \in Working => task.pc \in Working /\ \A f \in S : f.type \notin Terminals,
         task'.pc \in Busy =>
           task.pc \in Busy /\ task'.call = task.call /\ task'.todo = task.todo,
         task'.pc \in {"exec", "stop"} => task.pc \in {"exec", "stop"},
         task'.pc \in {"created", "abandon"} => task.pc \in {"created", "abandon"},
         tool'.call \in {tool.call, None},
         \/ unseen' = {}
         \/ /\ unseen' \subseteq unseen \cup ({tool.call} \ {None})
            /\ \A f \in S : f.type # "checkpoint",
         Checked', ToolWaits', LossIsSeen'
  PROVE  RInv'
<1>1. /\ Advertised' = Advertised
      /\ \A i \in Places' : log'[i].type \in Loud => i \in Places /\ log'[i] = log[i]
  BY QuietLog
<1>2. \A i \in Places' : IF i \in Places THEN log'[i] = log[i] ELSE log'[i] \in S
  BY DEF Grown, Places
<1>3. RType'
  BY <1>1 DEF RInv, RType, Grown
<1>4. Latest' = Latest /\ Latest \in Nat
  BY DEF RInv, RType, Latest
<1>5. Known'
  BY <1>2, <1>4 DEF RInv, Known
<1>6. OpenRun'
  BY <1>2, <1>4 DEF RInv, OpenRun
<1>7. CallFacts'
  <2>1. \A i \in Places' : log'[i].type \in {"prepared", "call.completed", "call.abandoned"} =>
                             i \in Places /\ log'[i] = log[i]
    BY <1>1 DEF Loud
  <2> QED BY <1>1, <1>4, <2>1 DEF RInv, CallFacts
<1>8. TaskCalls'
  <2>1. \A i \in Places' : log'[i].type \in {"prepared", "call.completed", "call.abandoned"} =>
                             i \in Places /\ log'[i] = log[i]
    BY <1>1 DEF Loud
  <2>2. task'.pc \in {"exec", "stop"} => task'.pc \in Busy
    BY DEF Busy
  <2> QED BY <1>1, <1>4, <2>1, <2>2 DEF RInv, TaskCalls
<1>9. Stillness'
  <2>1. \A i \in Places' : log'[i].type = "call.completed" => i \in Places /\ log'[i] = log[i]
    BY <1>1 DEF Loud
  <2>2. tool'.call # None => \A i \in Places' : log'[i].type = "call.completed" => log'[i].arg # tool'.call
    BY <2>1 DEF RInv, Stillness
  <2>3. ASSUME NEW i \in Places', NEW j \in Places', log'[i].type = "call.completed",
               log'[i].arg \in unseen', i < j, log'[j].type = "checkpoint"
        PROVE  FALSE
    <3>1. i \in Places /\ log'[i] = log[i]
      BY <2>1, <2>3
    <3>2. log[i].arg \in unseen /\ \A f \in S : f.type # "checkpoint"
      BY <2>3, <3>1 DEF RInv, Stillness
    <3>3. j \in Places /\ log'[j] = log[j]
      BY <1>2, <2>3, <3>2
    <3> QED BY <2>3, <3>1, <3>2, <3>3 DEF RInv, Stillness
  <2> QED BY <2>2, <2>3 DEF Stillness
<1> QED BY <1>3, <1>5, <1>6, <1>7, <1>8, <1>9 DEF RInv

\* The same of the process that runs: the task moves, a tool it waited for is over.
LEMMA UpMove ==
  ASSUME RInv, NEW S, Grown(S), \A f \in S : f.run = Latest /\ f.type \notin Loud,
         up, UNCHANGED <<rows, content, up, crashes>>, touched' \in BOOLEAN,
         task' \in TaskSet, task'.pc # "continue",
         task'.pc \in Working => task.pc \in Working /\ \A f \in S : f.type \notin Terminals,
         task'.pc \in Busy =>
           task.pc \in Busy /\ task'.call = task.call /\ task'.todo = task.todo,
         task'.pc \in {"exec", "stop"} => task.pc \in {"exec", "stop"},
         task'.pc \in {"created", "abandon"} => task.pc \in {"created", "abandon"},
         \/ tool' = NoTool
         \/ UNCHANGED tool /\ (task.pc \in {"exec", "stop"} => task'.pc \in {"exec", "stop"}),
         unseen' = {} \/ (UNCHANGED unseen /\ \A f \in S : f.type # "checkpoint")
  PROVE  RInv'
<1>1. /\ tool' \in ToolSet /\ tool'.call \in {tool.call, None} /\ content' \in Contents
      /\ up' \in BOOLEAN /\ crashes' \in Nat /\ unseen' \subseteq Calls
  <2>1. NoTool \in ToolSet /\ NoTool.call = None
    BY DEF NoTool, ToolSet
  <2>2. tool' \in ToolSet /\ tool'.call \in {tool.call, None}
    BY <2>1 DEF RInv, RType
  <2>3. content' \in Contents /\ up' \in BOOLEAN /\ crashes' \in Nat
    BY DEF RInv, RType
  <2>4. unseen' \subseteq Calls
    BY DEF RInv, RType
  <2> QED BY <2>2, <2>3, <2>4
<1>2. Checked' /\ LossIsSeen'
  BY DEF Checked, LossIsSeen
<1>3. task'.pc \in {"exec", "stop"} => task'.call = task.call
  BY DEF Busy
<1>4. ToolWaits'
  BY <1>3 DEF RInv, ToolWaits, NoTool
<1> QED BY <1>1, <1>2, <1>4, QuietStep DEF RInv, RType

-----------------------------------------------------------------------------
\* The types of what the actions build.
LEMMA FactType ==
  ASSUME NEW type \in FactTypes, NEW k \in Nat, NEW x \in Args
  PROVE  \E f \in FactSet : f = Fact(type, k, x) /\ f.type = type /\ f.run = k /\ f.arg = x
<1>1. PICK f : f = [type |-> type, run |-> k, arg |-> x]
  OBVIOUS
<1>2. f \in FactSet /\ f.type = type /\ f.run = k /\ f.arg = x
  BY <1>1 DEF FactSet
<1>3. f = Fact(type, k, x)
  BY <1>1 DEF Fact
<1> QED BY <1>2, <1>3

LEMMA AtType ==
  ASSUME RInv, NEW pc \in Working
  PROVE  At(pc) \in TaskSet /\ At(pc).pc = pc /\ At(pc).call = task.call /\ At(pc).todo = task.todo
BY DEF At, RInv, RType, TaskSet

LEMMA IdleType == Idle \in TaskSet /\ Idle.pc = "idle"
BY EmptySeq DEF Idle, TaskSet

LEMMA Basics ==
  ASSUME RInv
  PROVE  /\ RType /\ Latest \in Nat /\ None \in Args /\ Snapshot \in Args
         /\ touched \in BOOLEAN /\ FALSE \in BOOLEAN /\ touched' = touched => touched' \in BOOLEAN
  BY DEF RInv, RType, Latest, Args, Snapshot

\* One fact of the Run at work.
LEMMA EmitFact ==
  ASSUME RInv, NEW f \in FactSet, Emit(<<f>>)
  PROVE  Grown({f}) /\ Len(log') = Len(log) + 1 /\ touched' \in BOOLEAN
BY EmitOne DEF Emit, RInv

LEMMA EmitNothing ==
  ASSUME RInv, UNCHANGED <<log, touched>>
  PROVE  Grown({}) /\ touched' \in BOOLEAN
BY StandStill DEF RInv, RType

LEMMA CheckpointFact ==
  ASSUME RInv, EmitCheckpoint
  PROVE  /\ touched' \in BOOLEAN /\ unseen' = {}
         /\ \E f : /\ Grown({f}) /\ f.run = Latest /\ f.type = "checkpoint" /\ f.type \notin Loud
                   /\ f.type \notin Terminals
<1>1. PICK f \in FactSet :
        f = Fact("checkpoint", Latest, Snapshot) /\ f.type = "checkpoint" /\ f.run = Latest
  BY FactType, Basics DEF FactTypes
<1>2. Emit(<<f>>) /\ unseen' = {}
  BY <1>1 DEF EmitCheckpoint
<1>3. f.type \notin Loud /\ f.type \notin Terminals
  BY <1>1 DEF Loud, Terminals
<1>4. Grown({f}) /\ touched' \in BOOLEAN
  BY <1>2, EmitFact
<1> QED BY <1>1, <1>2, <1>3, <1>4

LEMMA StartKeeps == ASSUME RInv, Start PROVE RInv'
<1>1. CASE Snapshot = Checkpoint(Latest)
  <2>1. PICK f \in FactSet : f = Fact("started", Latest, None) /\ f.type = "started" /\ f.run = Latest
    BY FactType, Basics DEF FactTypes
  <2>2. Emit(<<f>>) /\ task' = At("first")
    BY <1>1, <2>1 DEF Start
  <2>3. f.type \notin Loud /\ f.type \notin Terminals /\ f.type # "checkpoint"
    BY <2>1 DEF Loud, Terminals
  <2>4. Grown({f}) /\ touched' \in BOOLEAN
    BY <2>2, EmitFact
  <2> QED BY <2>1, <2>2, <2>3, <2>4, AtType, UpMove DEF Start, Working, Busy
<1>2. CASE Snapshot # Checkpoint(Latest)
  <2>1. task' = At("fail") /\ UNCHANGED <<log, touched>>
    BY <1>2 DEF Start
  <2> QED BY <2>1, EmitNothing, AtType, UpMove DEF Start, Working, Busy
<1> QED BY <1>1, <1>2

LEMMA FirstKeeps == ASSUME RInv, FirstCheckpoint PROVE RInv'
<1>1. /\ EmitCheckpoint /\ up /\ task.pc = "first" /\ UNCHANGED <<rows, tool, content, up, crashes>>
      /\ task' \in TaskSet /\ task'.pc = "turn" /\ task'.call = task.call /\ task'.todo = task.todo
  BY AtType DEF FirstCheckpoint, Working, Busy
<1>2. PICK f : /\ Grown({f}) /\ f.run = Latest /\ f.type = "checkpoint" /\ f.type \notin Loud
               /\ f.type \notin Terminals
  BY <1>1, CheckpointFact
<1>3. touched' \in BOOLEAN /\ unseen' = {}
  BY <1>1, CheckpointFact
<1> QED BY <1>1, <1>2, <1>3, UpMove DEF Working, Busy

LEMMA AskKeeps == ASSUME RInv, Ask PROVE RInv'
<1>1. CASE Pending = {}
  <2>1. PICK f \in FactSet : f = Fact("request", Latest, None) /\ f.type = "request" /\ f.run = Latest
    BY FactType, Basics DEF FactTypes
  <2>2. Emit(<<f>>) /\ task' = At("model")
    BY <1>1, <2>1 DEF Ask
  <2>3. f.type \notin Loud /\ f.type \notin Terminals /\ f.type # "checkpoint"
    BY <2>1 DEF Loud, Terminals
  <2>4. Grown({f}) /\ touched' \in BOOLEAN
    BY <2>2, EmitFact
  <2> QED BY <2>1, <2>2, <2>3, <2>4, AtType, UpMove DEF Ask, Working, Busy
<1>2. CASE Pending # {}
  <2>1. task' = At("fail") /\ UNCHANGED <<log, touched>>
    BY <1>2 DEF Ask
  <2> QED BY <2>1, EmitNothing, AtType, UpMove DEF Ask, Working, Busy
<1> QED BY <1>1, <1>2

\* The task moves on without a word.
LEMMA SilentMoves ==
  ASSUME RInv, \/ StepFails \/ StopAtBudget \/ CallsDone \/ Escape \/ Cancel \/ Terminated
               \/ CancelPark
  PROVE  RInv'
<1>1. Grown({}) /\ touched' \in BOOLEAN
  BY EmitNothing DEF StepFails, StopAtBudget, CallsDone, Escape, Cancel, Terminated, CancelPark
<1>2. \E pc \in Working \ (Busy \ {"stop"}) : task' = At(pc) /\ (pc = "stop" => task.pc = "exec")
                       /\ pc \notin {"created", "abandon"}
  BY DEF StepFails, StopAtBudget, CallsDone, Escape, Cancel, Terminated, CancelPark, Working, Busy
<1>3. /\ up /\ task.pc \in Working /\ UNCHANGED <<rows, content, up, crashes, unseen>>
      /\ \/ tool' = NoTool
         \/ UNCHANGED tool /\ (task.pc \in {"exec", "stop"} => task' = At("stop"))
  BY DEF StepFails, StopAtBudget, CallsDone, Escape, Cancel, Terminated, CancelPark, Executing,
         ToolIsOver, Working, Busy
<1>4. PICK pc \in Working : /\ task' = At(pc) /\ (pc = "stop" => task.pc = "exec")
                            /\ pc \notin (Busy \ {"stop"}) /\ pc \notin {"created", "abandon"}
  BY <1>2
<1>5. task' \in TaskSet /\ task'.pc = pc /\ task'.call = task.call /\ task'.todo = task.todo
  BY <1>4, AtType
<1> QED BY <1>1, <1>3, <1>4, <1>5, AtType, UpMove DEF Working, Busy

LEMMA UnknownKeeps == ASSUME RInv, CompleteUnknown PROVE RInv'
<1>1. task.pc \in {"exec", "stop"} /\ task.call \in Args
  BY DEF CompleteUnknown, Executing, RInv, RType, TaskSet, Args
<1>2. PICK f \in FactSet : f = Fact("call.unknown", Latest, task.call) /\ f.type = "call.unknown"
                             /\ f.run = Latest
  BY <1>1, FactType, Basics DEF FactTypes
<1>3. Emit(<<f>>) /\ task' \in {At("park"), At("interrupt")}
  BY <1>2 DEF CompleteUnknown
<1>4. f.type \notin Loud /\ f.type \notin Terminals /\ f.type # "checkpoint"
  BY <1>2 DEF Loud, Terminals
<1>5. Grown({f}) /\ touched' \in BOOLEAN
  BY <1>3, EmitFact
<1>6. task' \in TaskSet /\ task'.pc \in {"park", "interrupt"}
  BY <1>3, AtType DEF Working
<1> QED BY <1>1, <1>2, <1>4, <1>5, <1>6, UpMove
        DEF CompleteUnknown, Executing, ToolIsOver, Working, Busy

LEMMA PostKeeps == ASSUME RInv, PostCheckpoint PROVE RInv'
<1>1. /\ EmitCheckpoint /\ up /\ task.pc = "post" /\ UNCHANGED <<rows, tool, content, up, crashes>>
      /\ task' \in TaskSet /\ task'.pc = "next" /\ task'.call = task.call /\ task'.todo = task.todo
  BY AtType DEF PostCheckpoint, Working, Busy
<1>2. PICK f : /\ Grown({f}) /\ f.run = Latest /\ f.type = "checkpoint" /\ f.type \notin Loud
               /\ f.type \notin Terminals
  BY <1>1, CheckpointFact
<1>3. touched' \in BOOLEAN /\ unseen' = {}
  BY <1>1, CheckpointFact
<1> QED BY <1>1, <1>2, <1>3, UpMove DEF Working, Busy

LEMMA ParkKeeps == ASSUME RInv, ParkCheckpoint PROVE RInv'
<1>1. /\ task' \in TaskSet /\ task'.pc = "interrupt" /\ up /\ task.pc \in Working
      /\ task.pc \notin {"exec", "stop"} /\ UNCHANGED <<rows, tool, content, up, crashes>>
  BY AtType DEF ParkCheckpoint, Working
<1>2. CASE EmitCheckpoint
  BY <1>1, <1>2, CheckpointFact, UpMove DEF Busy
<1>3. CASE UNCHANGED <<log, touched, unseen>>
  BY <1>1, <1>3, EmitNothing, UpMove DEF Busy
<1> QED BY <1>2, <1>3 DEF ParkCheckpoint

LEMMA AbandonStartKeeps == ASSUME RInv, AbandonStart PROVE RInv'
<1>1. PICK f \in FactSet : f = Fact("started", Latest, None) /\ f.type = "started" /\ f.run = Latest
  BY FactType, Basics DEF FactTypes
<1>2. Emit(<<f>>) /\ task' = At("abandon")
  BY <1>1 DEF AbandonStart
<1>3. f.type \notin Loud /\ f.type \notin Terminals /\ f.type # "checkpoint"
  BY <1>1 DEF Loud, Terminals
<1>4. Grown({f}) /\ touched' \in BOOLEAN
  BY <1>2, EmitFact
<1> QED BY <1>1, <1>2, <1>3, <1>4, AtType, UpMove DEF AbandonStart, Working, Busy

\* A terminal fact and an idle task.
LEMMA EndKeeps == ASSUME RInv, Finish \/ AbandonFinish PROVE RInv'
<1>1. \E type \in Terminals : Emit(<<Fact(type, Latest, None)>>)
  BY DEF Finish, AbandonFinish, Terminals
<1>2. PICK type \in Terminals : Emit(<<Fact(type, Latest, None)>>)
  BY <1>1
<1>3. type \in FactTypes /\ type \notin Loud /\ type # "checkpoint"
  BY DEF Terminals, FactTypes, Loud
<1>4. PICK f \in FactSet : f = Fact(type, Latest, None) /\ f.type = type /\ f.run = Latest
  BY <1>3, FactType, Basics
<1>5. Grown({f}) /\ touched' \in BOOLEAN
  BY <1>2, <1>4, EmitFact
<1>6. /\ task' \in TaskSet /\ task'.pc = "idle" /\ up /\ UNCHANGED unseen
      /\ task.pc \notin {"exec", "stop"} /\ UNCHANGED <<rows, tool, content, up, crashes>>
  BY IdleType DEF Finish, AbandonFinish
<1> QED BY <1>3, <1>4, <1>5, <1>6, UpMove DEF Working, Busy

-----------------------------------------------------------------------------
(***************************************************************************)
(* Steps whose facts are about calls.                                      *)
(***************************************************************************)
\* A place of the log is an old one, or a later one with a new fact.
LEMMA OldOrNew ==
  ASSUME RType, NEW S, Grown(S)
  PROVE  /\ \A i \in Places' : IF i \in Places THEN log'[i] = log[i] ELSE log'[i] \in S
         /\ \A i, j \in Places' : i \notin Places /\ i < j => j \notin Places
<1>1. \A i \in Places' : IF i \in Places THEN log'[i] = log[i] ELSE log'[i] \in S
  BY DEF Grown, Places
<1>2. /\ \A i \in Places : i <= Len(log) /\ i \in Nat
      /\ \A i \in Places' : i \notin Places => i > Len(log)
      /\ Len(log) \in Nat /\ \A i \in Places' : i \in Nat
  <2>1. \A i \in Places : i \in 1 .. Len(log) /\ Len(log) \in Nat
    BY LenProperties DEF RType, Places
  <2>2. Len(log) \in Nat /\ \A i \in Places' : i \in 1 .. Len(log') /\ Len(log') \in Nat
    BY LenProperties DEF RType, Places, Grown
  <2>3. \A i \in Places' : i \notin Places => i > Len(log)
    BY DEF Grown, Places
  <2> QED BY <2>1, <2>2, <2>3
<1>3. \A i, j \in Places' : i \notin Places /\ i < j => j \notin Places
  BY <1>2
<1> QED BY <1>1, <1>3

\* Without a response the same calls are advertised.
LEMMA SameCalls ==
  ASSUME RInv, NEW S, Grown(S), \A f \in S : f.type # "response"
  PROVE  Advertised' = Advertised
<1>1. \A i \in Places' : log'[i].type = "response" => i \in Places /\ log'[i] = log[i]
  BY DEF Grown, Places
<1>2. \A i \in Places : i \in Places' /\ log'[i] = log[i]
  BY DEF Grown, Places
<1>3. Typed({"response"})' = Typed({"response"})
  BY <1>1, <1>2 DEF Typed, Places
<1>4. \A i \in Typed({"response"}) : log'[i] = log[i]
  BY <1>2 DEF Typed, Places
<1> QED BY <1>3, <1>4 DEF Advertised

LEMMA PrepareKeeps == ASSUME RInv, Prepare PROVE RInv'
<1>1. /\ up /\ task.pc = "next" /\ task.pc \in Busy /\ task.pc \in Working
      /\ task.todo \in Seq(Calls) /\ task.todo # <<>>
      /\ UNCHANGED <<rows, content, up, crashes, unseen>> /\ RType /\ Latest' = Latest
  BY DEF Prepare, RInv, RType, TaskSet, Busy, Working, Latest
<1>2. PICK c \in Calls : c = Head(task.todo) /\ 1 \in DOMAIN task.todo /\ c = task.todo[1]
  BY <1>1, HeadTailProperties
<1>3. PICK f \in FactSet : f = Fact("prepared", Latest, c) /\ f.type = "prepared"
                             /\ f.run = Latest /\ f.arg = c
  BY FactType, Basics DEF FactTypes, Args
<1>4. /\ Emit(<<f>>) /\ task' = [pc |-> "exec", call |-> c, todo |-> Tail(task.todo)]
      /\ tool' = [call |-> c, acted |-> FALSE]
  BY <1>2, <1>3 DEF Prepare
<1>5. Grown({f}) /\ touched' \in BOOLEAN /\ Advertised' = Advertised
  BY <1>3, <1>4, EmitFact, SameCalls
<1>6. /\ \A i \in Places' : IF i \in Places THEN log'[i] = log[i] ELSE log'[i] = f
  BY <1>1, <1>5, OldOrNew
<1>7. /\ Tail(task.todo) \in Seq(Calls)
      /\ \A n \in DOMAIN Tail(task.todo) :
           Tail(task.todo)[n] = task.todo[n + 1] /\ n + 1 \in DOMAIN task.todo /\ n + 1 # 1
           /\ n \in Int
  <2>1. /\ Tail(task.todo) \in Seq(Calls) /\ Len(Tail(task.todo)) = Len(task.todo) - 1
        /\ \A n \in 1 .. Len(Tail(task.todo)) : Tail(task.todo)[n] = task.todo[n + 1]
    BY <1>1, HeadTailProperties
  <2>2. DOMAIN Tail(task.todo) = 1 .. Len(Tail(task.todo)) /\ DOMAIN task.todo = 1 .. Len(task.todo)
        /\ Len(task.todo) \in Nat
    BY <1>1, <2>1, LenProperties
  <2> QED BY <2>1, <2>2
<1>8. /\ IsInjective(task.todo)
      /\ \A n \in DOMAIN task.todo :
           /\ task.todo[n] \in Advertised
           /\ \A i \in Places :
                log[i].type \in {"prepared", "call.completed", "call.abandoned"} =>
                  log[i].arg # task.todo[n]
  BY <1>1 DEF RInv, TaskCalls
<1>9. RType'
  <2>1. task' \in TaskSet /\ tool' \in ToolSet
    BY <1>4, <1>7 DEF TaskSet, ToolSet, Working, Busy
  <2> QED BY <1>1, <1>5, <2>1 DEF RType, Grown
<1>10. Known' /\ OpenRun'
  BY <1>1, <1>3, <1>6, Basics DEF RInv, Known, OpenRun, Terminals
<1>11. CallFacts'
  <2>1. c \in Advertised
    BY <1>2, <1>8
  <2>2. \A i \in Places :
          log[i].type \in {"prepared", "call.completed", "call.abandoned"} => log[i].arg # c
    BY <1>2, <1>8
  <2>3. \A i \in Places' :
          log'[i].type \in {"prepared", "call.completed", "call.abandoned"} => log'[i].arg \in Advertised'
    BY <1>3, <1>5, <1>6, <2>1 DEF RInv, CallFacts
  <2>4. \A i, j \in Places' :
          /\ log'[i].type = "prepared" /\ log'[j].type = "call.completed" /\ log'[i].arg = log'[j].arg
          => log'[i].run = log'[j].run
    BY <1>3, <1>6, <2>2 DEF RInv, CallFacts
  <2>5. \A i, j \in Places' :
          /\ log'[i].type = "prepared" /\ log'[j].type = "call.abandoned" /\ log'[i].run = Latest'
          => log'[i].arg # log'[j].arg
    BY <1>1, <1>3, <1>6, <2>2 DEF RInv, CallFacts
  <2> QED BY <2>3, <2>4, <2>5 DEF CallFacts
<1>12. TaskCalls'
  <2>1. task'.pc = "exec" /\ task'.call = c /\ task'.todo = Tail(task.todo)
    BY <1>4
  <2>2. IsInjective(Tail(task.todo))
    BY <1>7, <1>8 DEF IsInjective
  <2>3. \A n \in DOMAIN Tail(task.todo) : Tail(task.todo)[n] # c /\ Tail(task.todo)[n] \in Advertised
    BY <1>2, <1>7, <1>8 DEF IsInjective
  <2>4. \A n \in DOMAIN Tail(task.todo) : \A i \in Places' :
          log'[i].type \in {"prepared", "call.completed", "call.abandoned"} =>
            log'[i].arg # Tail(task.todo)[n]
    BY <1>3, <1>6, <1>7, <1>8, <2>3
  <2>5. c \in Advertised /\ \A i \in Places : log[i].type = "prepared" => log[i].arg # c
    BY <1>2, <1>8
  <2>6. \A i \in Places' : log'[i].type = "prepared" /\ log'[i].arg = c => log'[i].run = Latest
    BY <1>3, <1>6, <2>5
  <2> QED BY <1>1, <1>5, <2>1, <2>2, <2>3, <2>4, <2>5, <2>6 DEF TaskCalls
<1>13. Stillness'
  <2>1. \A i \in Places : log[i].type = "call.completed" => log[i].arg # c
    BY <1>2, <1>8
  <2>2. tool'.call = c /\ \A i \in Places' : log'[i].type = "call.completed" => log'[i].arg # c
    BY <1>3, <1>4, <1>6, <2>1
  <2>3. \A i, j \in Places' :
         /\ log'[i].type = "call.completed" /\ log'[i].arg \in unseen' /\ i < j
         => log'[j].type # "checkpoint"
    BY <1>1, <1>3, <1>6 DEF RInv, Stillness
  <2> QED BY <2>2, <2>3 DEF Stillness
<1>14. ToolWaits' /\ Checked' /\ LossIsSeen'
  <2>1. ToolWaits'
    BY <1>1, <1>4 DEF RInv, ToolWaits
  <2> QED BY <1>1, <1>4, <2>1 DEF Checked, LossIsSeen
<1> QED BY <1>9, <1>10, <1>11, <1>12, <1>13, <1>14 DEF RInv

LEMMA CompleteKeeps == ASSUME RInv, Complete PROVE RInv'
<1>1. /\ up /\ task.pc \in {"exec", "stop"} /\ task.pc \in Busy /\ task.pc \in Working
      /\ UNCHANGED <<rows, content, up, crashes, unseen>> /\ RType /\ Latest' = Latest
      /\ tool' = NoTool /\ task.call \in Calls \cup {None} /\ task.call \in Args
  BY DEF Complete, Executing, ToolIsOver, RInv, RType, TaskSet, Busy, Working, Latest, Args
<1>2. PICK f \in FactSet : f = Fact("call.completed", Latest, task.call) /\ f.type = "call.completed"
                             /\ f.run = Latest /\ f.arg = task.call
  BY <1>1, FactType, Basics DEF FactTypes
<1>3. Emit(<<f>>) /\ task' \in {At("park"), At("parkNow"), At("next"), At("post")}
  BY <1>2 DEF Complete
<1>4. Grown({f}) /\ touched' \in BOOLEAN /\ Advertised' = Advertised
  BY <1>2, <1>3, EmitFact, SameCalls
<1>5. /\ \A i \in Places' : IF i \in Places THEN log'[i] = log[i] ELSE log'[i] = f
      /\ \A i, j \in Places' : i \notin Places /\ i < j => j \notin Places
  BY <1>1, <1>4, OldOrNew
<1>6. /\ task' \in TaskSet /\ task'.pc \in {"park", "parkNow", "next", "post"}
      /\ task'.todo = task.todo
  BY <1>3, AtType DEF Working, Busy
<1>7. /\ IsInjective(task.todo) /\ task.call \in Advertised
      /\ \A n \in DOMAIN task.todo :
           /\ task.todo[n] \in Advertised /\ task.todo[n] # task.call
           /\ \A i \in Places :
                log[i].type \in {"prepared", "call.completed", "call.abandoned"} =>
                  log[i].arg # task.todo[n]
      /\ \A i \in Places : log[i].type = "prepared" /\ log[i].arg = task.call => log[i].run = Latest
  BY <1>1 DEF RInv, TaskCalls
<1>8. RType'
  <2>1. tool' \in ToolSet
    BY <1>1 DEF NoTool, ToolSet
  <2> QED BY <1>1, <1>4, <1>6, <2>1 DEF RType, Grown
<1>9. Known' /\ OpenRun'
  BY <1>1, <1>2, <1>5, Basics DEF RInv, Known, OpenRun, Terminals
<1>10. CallFacts'
  <2>1. \A i \in Places' :
          log'[i].type \in {"prepared", "call.completed", "call.abandoned"} => log'[i].arg \in Advertised'
    BY <1>2, <1>4, <1>5, <1>7 DEF RInv, CallFacts
  <2>2. \A i, j \in Places' :
          /\ log'[i].type = "prepared" /\ log'[j].type = "call.completed" /\ log'[i].arg = log'[j].arg
          => log'[i].run = log'[j].run
    BY <1>2, <1>5, <1>7 DEF RInv, CallFacts
  <2>3. \A i, j \in Places' :
          /\ log'[i].type = "prepared" /\ log'[j].type = "call.abandoned" /\ log'[i].run = Latest'
          => log'[i].arg # log'[j].arg
    BY <1>1, <1>2, <1>5 DEF RInv, CallFacts
  <2> QED BY <2>1, <2>2, <2>3 DEF CallFacts
<1>11. TaskCalls'
  <2>1. \A n \in DOMAIN task.todo : \A i \in Places' :
          log'[i].type \in {"prepared", "call.completed", "call.abandoned"} => log'[i].arg # task.todo[n]
    BY <1>2, <1>5, <1>7
  <2> QED BY <1>4, <1>6, <1>7, <2>1 DEF TaskCalls
<1>12. Stillness'
  <2>1. \A i, j \in Places' :
         /\ log'[i].type = "call.completed" /\ log'[i].arg \in unseen' /\ i < j
         => log'[j].type # "checkpoint"
    BY <1>1, <1>2, <1>5 DEF RInv, Stillness
  <2> QED BY <1>1, <2>1 DEF Stillness, NoTool
<1>13. ToolWaits' /\ Checked' /\ LossIsSeen'
  BY <1>1, <1>6 DEF RInv, ToolWaits, Checked, LossIsSeen, NoTool
<1> QED BY <1>8, <1>9, <1>10, <1>11, <1>12, <1>13 DEF RInv

\* Answers to calls that are not dispatched.
LEMMA Answers ==
  ASSUME NEW k \in Nat, NEW cs \in Seq(Calls), NEW given,
         given = [i \in DOMAIN cs |-> Fact("call.abandoned", k, cs[i])]
  PROVE  /\ given \in Seq(FactSet)
         /\ \A n \in DOMAIN given : /\ n \in DOMAIN cs /\ given[n].type = "call.abandoned"
                                    /\ given[n].run = k /\ given[n].arg = cs[n]
<1>1. DOMAIN cs = 1 .. Len(cs) /\ Len(cs) \in Nat /\ \A n \in DOMAIN cs : cs[n] \in Calls
  BY LenProperties, ElementOfSeq
<1>2. \A n \in DOMAIN cs :
        /\ given[n] \in FactSet /\ given[n].type = "call.abandoned" /\ given[n].run = k
        /\ given[n].arg = cs[n]
  BY <1>1, FactType DEF FactTypes, Args
<1>3. given \in [1 .. Len(cs) -> FactSet]
  BY <1>1, <1>2
<1>4. given \in Seq(FactSet)
  BY <1>1, <1>3, IsASeq
<1> QED BY <1>2, <1>4

\* A fact and further ones in one transaction.
LEMMA EmitMore ==
  ASSUME RType, NEW f \in FactSet, NEW given \in Seq(FactSet), log' = log \o (<<f>> \o given)
  PROVE  /\ \A S : f \in S /\ (\A n \in DOMAIN given : given[n] \in S) => Grown(S)
         /\ \E i \in Places' : log'[i] = f
         /\ \A n \in DOMAIN given : \E i \in Places' : log'[i] = given[n]
<1>1. /\ <<f>> \in Seq(FactSet) /\ Len(<<f>>) = 1 /\ <<f>>[1] = f
      /\ Len(given) \in Nat /\ DOMAIN given = 1 .. Len(given)
  BY LenProperties
<1>2. PICK facts : facts = <<f>> \o given
  OBVIOUS
<1>3. /\ facts \in Seq(FactSet) /\ Len(facts) = 1 + Len(given)
      /\ DOMAIN facts = 1 .. 1 + Len(given)
      /\ \A i \in 1 .. 1 + Len(given) : facts[i] = IF i <= 1 THEN <<f>>[i] ELSE given[i - 1]
  BY <1>1, <1>2, ConcatProperties, LenProperties
<1>4. ASSUME NEW S, f \in S, \A n \in DOMAIN given : given[n] \in S PROVE Grown(S)
  <2>1. ASSUME NEW i \in 1 .. 1 + Len(given) PROVE facts[i] \in S
    <3>1. i <= 1 => i = 1
      OBVIOUS
    <3>2. ~ (i <= 1) => i - 1 \in DOMAIN given
      BY <1>1
    <3> QED BY <1>1, <1>3, <1>4, <3>1, <3>2
  <2> QED BY <1>2, <1>3, <2>1, EmitGrows
<1>5. /\ log \in Seq(FactSet) /\ log' \in Seq(FactSet) /\ Len(log') = Len(log) + Len(facts)
      /\ Len(log) \in Nat /\ DOMAIN log' = 1 .. Len(log')
      /\ \A i \in 1 .. Len(log') : log'[i] = IF i <= Len(log) THEN log[i] ELSE facts[i - Len(log)]
  BY <1>2, <1>3, ConcatProperties, LenProperties DEF RType
<1>6. ASSUME NEW n \in 1 .. 1 + Len(given) PROVE \E i \in Places' : log'[i] = facts[n]
  <2>1. /\ Len(log) + n \in 1 .. Len(log') /\ ~ (Len(log) + n <= Len(log))
        /\ (Len(log) + n) - Len(log) = n
    BY <1>1, <1>3, <1>5
  <2> QED BY <1>5, <2>1 DEF Places
<1>7. facts[1] = f /\ 1 \in 1 .. 1 + Len(given)
  BY <1>1, <1>3
<1>8. \A n \in DOMAIN given : n + 1 \in 1 .. 1 + Len(given) /\ facts[n + 1] = given[n]
  BY <1>1, <1>3
<1> QED BY <1>4, <1>6, <1>7, <1>8

\* The calls of a loop that were not dispatched are answered.
LEMMA LoopFacts ==
  ASSUME RInv, ParkLoop
  PROVE  \E S : /\ Grown(S)
                /\ \A g \in S : /\ g.type \in {"loop", "call.abandoned"} /\ g.run = Latest
                                /\ g.type = "call.abandoned" =>
                                     \E n \in DOMAIN task.todo : g.arg = task.todo[n]
<1>1. /\ up /\ task.pc = "next" /\ task.pc \in Busy /\ task.pc \in Working
      /\ task.todo \in Seq(Calls) /\ UNCHANGED <<rows, tool, content, up, crashes, unseen>>
      /\ RType /\ Latest' = Latest /\ Latest \in Nat
  BY DEF ParkLoop, RInv, RType, TaskSet, Busy, Working, Latest
<1>2. /\ DOMAIN task.todo = 1 .. Len(task.todo) /\ Len(task.todo) \in Nat
      /\ \A n \in DOMAIN task.todo :
           /\ task.todo[n] \in Calls /\ task.todo[n] \in Advertised
           /\ \A i \in Places :
                log[i].type \in {"prepared", "call.completed", "call.abandoned"} =>
                  log[i].arg # task.todo[n]
  BY <1>1, LenProperties, ElementOfSeq DEF RInv, TaskCalls
<1>3. PICK given : given = [i \in DOMAIN task.todo |-> Fact("call.abandoned", Latest, task.todo[i])]
  OBVIOUS
<1>4. /\ given \in Seq(FactSet)
      /\ \A n \in DOMAIN given : /\ n \in DOMAIN task.todo /\ given[n].type = "call.abandoned"
                                 /\ given[n].run = Latest /\ given[n].arg = task.todo[n]
  <2>1. PICK cs \in Seq(Calls), k \in Nat : cs = task.todo /\ k = Latest
    BY <1>1
  <2>2. given = [i \in DOMAIN cs |-> Fact("call.abandoned", k, cs[i])]
    BY <1>3, <2>1
  <2>3. /\ given \in Seq(FactSet)
        /\ \A n \in DOMAIN given : /\ n \in DOMAIN cs /\ given[n].type = "call.abandoned"
                                   /\ given[n].run = k /\ given[n].arg = cs[n]
    BY <2>2, Answers
  <2> QED BY <2>1, <2>3
<1>5. PICK f \in FactSet : f = Fact("loop", Latest, None) /\ f.type = "loop" /\ f.run = Latest
  BY FactType, Basics DEF FactTypes
<1>6. PICK S : S = {f} \cup {given[n] : n \in DOMAIN given}
  OBVIOUS
<1>7. log' = log \o (<<f>> \o given) /\ touched' = FALSE /\ task' = At("park")
  BY <1>3, <1>5 DEF ParkLoop, Emit
<1>8. Grown(S)
  <2>1. f \in S /\ \A n \in DOMAIN given : given[n] \in S
    BY <1>6
  <2> QED BY <1>1, <1>4, <1>7, <2>1, EmitMore
<1>9. \A g \in S : /\ g.type \in {"loop", "call.abandoned"} /\ g.run = Latest
                   /\ g.type = "call.abandoned" => \E n \in DOMAIN task.todo : g.arg = task.todo[n]
  BY <1>4, <1>5, <1>6
<1> QED BY <1>8, <1>9

LEMMA ParkLoopKeeps == ASSUME RInv, ParkLoop PROVE RInv'
<1>1. /\ up /\ task.pc = "next" /\ task.pc \in Busy /\ task.pc \in Working
      /\ task.todo \in Seq(Calls) /\ UNCHANGED <<rows, tool, content, up, crashes, unseen>>
      /\ RType /\ Latest' = Latest /\ Latest \in Nat
  BY DEF ParkLoop, RInv, RType, TaskSet, Busy, Working, Latest
<1>2. /\ DOMAIN task.todo = 1 .. Len(task.todo) /\ Len(task.todo) \in Nat
      /\ \A n \in DOMAIN task.todo :
           /\ task.todo[n] \in Calls /\ task.todo[n] \in Advertised
           /\ \A i \in Places :
                log[i].type \in {"prepared", "call.completed", "call.abandoned"} =>
                  log[i].arg # task.todo[n]
  BY <1>1, LenProperties, ElementOfSeq DEF RInv, TaskCalls
<1>3. touched' = FALSE /\ task' = At("park")
  BY DEF ParkLoop, Emit
<1>4. PICK S : /\ Grown(S)
               /\ \A g \in S : /\ g.type \in {"loop", "call.abandoned"} /\ g.run = Latest
                               /\ g.type = "call.abandoned" =>
                                    \E n \in DOMAIN task.todo : g.arg = task.todo[n]
  BY LoopFacts
<1>5. \A g \in S : /\ g.type \in {"loop", "call.abandoned"} /\ g.run = Latest
                   /\ g.type = "call.abandoned" => \E n \in DOMAIN task.todo : g.arg = task.todo[n]
  BY <1>4
<1>6. Advertised' = Advertised
  BY <1>4, <1>5, SameCalls
<1>7. \A i \in Places' : IF i \in Places THEN log'[i] = log[i] ELSE log'[i] \in S
  BY <1>1, <1>4, OldOrNew
<1>8. task' \in TaskSet /\ task'.pc = "park"
  BY <1>3, AtType DEF Working, Busy
<1>9. RType'
  BY <1>1, <1>3, <1>4, <1>6, <1>8 DEF RType, Grown
<1>10. Known' /\ OpenRun'
  <2>1. \A i \in Places' : log'[i].run <= Latest
    BY <1>1, <1>5, <1>7 DEF RInv, Known
  <2>2. \A i \in Places' : log'[i].run = Latest => log'[i].type \notin Terminals
    BY <1>1, <1>5, <1>7 DEF RInv, OpenRun, Terminals
  <2> QED BY <1>1, <2>1, <2>2 DEF RInv, Known, OpenRun
<1>11. CallFacts'
  <2>1. \A i \in Places' :
          log'[i].type \in {"prepared", "call.completed", "call.abandoned"} => log'[i].arg \in Advertised'
    BY <1>2, <1>5, <1>6, <1>7 DEF RInv, CallFacts
  <2>2. \A i, j \in Places' :
          /\ log'[i].type = "prepared" /\ log'[j].type = "call.completed" /\ log'[i].arg = log'[j].arg
          => log'[i].run = log'[j].run
    BY <1>5, <1>7 DEF RInv, CallFacts
  <2>3. \A i, j \in Places' :
          /\ log'[i].type = "prepared" /\ log'[j].type = "call.abandoned" /\ log'[i].run = Latest'
          => log'[i].arg # log'[j].arg
    BY <1>1, <1>2, <1>5, <1>7 DEF RInv, CallFacts
  <2> QED BY <2>1, <2>2, <2>3 DEF CallFacts
<1>12. TaskCalls' /\ Checked' /\ LossIsSeen' /\ ToolWaits'
  BY <1>1, <1>8 DEF TaskCalls, Checked, LossIsSeen, ToolWaits, Busy, RInv
<1>13. Stillness'
  BY <1>1, <1>5, <1>7 DEF RInv, Stillness
<1> QED BY <1>9, <1>10, <1>11, <1>12, <1>13 DEF RInv

LEMMA AbandonCallKeeps == ASSUME RInv, NEW c \in Calls, AbandonCall(c) PROVE RInv'
<1>1. /\ up /\ task.pc = "abandon" /\ task.pc \in Working /\ task.pc \notin Busy
      /\ UNCHANGED <<rows, task, tool, content, up, crashes, unseen>> /\ RType /\ Latest' = Latest
      /\ Latest \in Nat /\ c \in Advertised
  BY DEF AbandonCall, RInv, RType, Busy, Working, Latest, Pending
<1>2. PICK f \in FactSet : f = Fact("call.abandoned", Latest, c) /\ f.type = "call.abandoned"
                             /\ f.run = Latest /\ f.arg = c
  BY FactType, Basics DEF FactTypes, Args
<1>3. Emit(<<f>>)
  BY <1>2 DEF AbandonCall
<1>4. Grown({f}) /\ touched' \in BOOLEAN /\ Advertised' = Advertised
  BY <1>2, <1>3, EmitFact, SameCalls
<1>5. \A i \in Places' : IF i \in Places THEN log'[i] = log[i] ELSE log'[i] = f
  BY <1>1, <1>4, OldOrNew
<1>6. \A i \in Places' : log'[i].type = "prepared" => log'[i].run # Latest
  BY <1>1, <1>2, <1>5 DEF RInv, TaskCalls
<1>7. RType'
  BY <1>1, <1>4 DEF RType, Grown
<1>8. Known' /\ OpenRun'
  BY <1>1, <1>2, <1>5 DEF RInv, Known, OpenRun, Terminals
<1>9. CallFacts'
  <2>1. \A i \in Places' :
          log'[i].type \in {"prepared", "call.completed", "call.abandoned"} => log'[i].arg \in Advertised'
    BY <1>1, <1>2, <1>4, <1>5 DEF RInv, CallFacts
  <2>2. \A i, j \in Places' :
          /\ log'[i].type = "prepared" /\ log'[j].type = "call.completed" /\ log'[i].arg = log'[j].arg
          => log'[i].run = log'[j].run
    BY <1>2, <1>5 DEF RInv, CallFacts
  <2> QED BY <1>1, <1>6, <2>1, <2>2 DEF CallFacts
<1>10. TaskCalls' /\ Checked' /\ LossIsSeen' /\ ToolWaits'
  BY <1>1, <1>6 DEF TaskCalls, Checked, LossIsSeen, ToolWaits, Busy, RInv
<1>11. Stillness'
  BY <1>1, <1>2, <1>5 DEF RInv, Stillness
<1> QED BY <1>7, <1>8, <1>9, <1>10, <1>11 DEF RInv

\* A response adds its calls to those advertised.
LEMMA MoreCalls ==
  ASSUME RInv, NEW S, Grown(S), NEW f \in S, NEW cs \in Seq(Calls),
         f.type = "response", f.arg = cs, \A g \in S : g.type = "response" => g = f,
         \E i \in Places' : log'[i] = f
  PROVE  /\ Advertised' = Advertised \cup Range(cs)
         /\ Advertised' \subseteq Calls /\ IsFiniteSet(Advertised')
<1>1. \A i \in Places' : IF i \in Places THEN log'[i] = log[i] ELSE log'[i] \in S
  BY OldOrNew DEF RInv
<1>2. \A i \in Places : i \in Places' /\ log'[i] = log[i]
  BY DEF Grown, Places
<1>3. ASSUME NEW c \in Advertised' PROVE c \in Advertised \cup Range(cs)
  <2>1. PICK i \in Places' : log'[i].type = "response" /\ c \in Range(log'[i].arg)
    BY <1>3 DEF Advertised, Typed, Places
  <2>2. CASE i \in Places
    <3>1. log[i].type = "response" /\ c \in Range(log[i].arg)
      BY <1>1, <2>1, <2>2
    <3> QED BY <2>2, <3>1 DEF Advertised, Typed, Places
  <2>3. CASE i \notin Places
    BY <1>1, <2>1, <2>3
  <2> QED BY <2>2, <2>3
<1>4. ASSUME NEW c \in Advertised PROVE c \in Advertised'
  <2>1. PICK i \in Places : log[i].type = "response" /\ c \in Range(log[i].arg)
    BY <1>4 DEF Advertised, Typed, Places
  <2>2. i \in Places' /\ log'[i].type = "response" /\ c \in Range(log'[i].arg)
    BY <1>2, <2>1
  <2> QED BY <2>2 DEF Advertised, Typed, Places
<1>5. ASSUME NEW c \in Range(cs) PROVE c \in Advertised'
  <2>1. PICK i \in Places' : log'[i].type = "response" /\ c \in Range(log'[i].arg)
    BY <1>5
  <2> QED BY <2>1 DEF Advertised, Typed, Places
<1>6. Range(cs) \subseteq Calls /\ IsFiniteSet(Range(cs))
  <2>1. /\ DOMAIN cs = 1 .. Len(cs) /\ Len(cs) \in Nat /\ \A n \in DOMAIN cs : cs[n] \in Calls
        /\ cs = [n \in DOMAIN cs |-> cs[n]]
    BY LenProperties, ElementOfSeq
  <2>2. cs \in Surjection(1 .. Len(cs), Range(cs))
    BY <2>1 DEF Surjection, Range
  <2>3. IsFiniteSet(1 .. Len(cs))
    <3>1. 1 \in Int /\ Len(cs) \in Int
      BY <2>1
    <3> QED BY <3>1, FS_Interval, Zenon
  <2>4. IsFiniteSet(Range(cs))
    BY <2>2, <2>3, FS_Surjection
  <2> QED BY <2>1, <2>4 DEF Range
<1>7. Advertised' = Advertised \cup Range(cs)
  BY <1>3, <1>4, <1>5
<1> QED BY <1>6, <1>7, FS_Union DEF RInv, RType

LEMMA BatchType ==
  ASSUME NEW cs \in Batches
  PROVE  /\ cs \in Seq(Calls) /\ IsInjective(cs)
         /\ \A n \in DOMAIN cs : cs[n] \in Range(cs) /\ cs[n] \notin Advertised
<1>1. PICK n \in 0 .. MaxBatch : cs \in [1 .. n -> Calls \ Advertised]
  BY DEF Batches
<1>2. n \in Nat /\ cs \in [1 .. n -> Calls]
  BY <1>1, RecoveryAssumption DEF RecoveryAssumption
<1>3. cs \in Seq(Calls)
  BY <1>2, IsASeq
<1> QED BY <1>1, <1>3 DEF Batches, Range

\* What a response does to the log, alone or with the answers to its calls.
LEMMA Responds ==
  ASSUME RInv, task.pc = "model", up, UNCHANGED <<rows, tool, content, up, crashes, unseen>>,
         task' \in TaskSet, task'.pc \in {"complete", "next", "fail"}, touched' \in BOOLEAN,
         NEW cs \in Batches, NEW S, Grown(S),
         NEW f \in S, f.type = "response", f.arg = cs, \E i \in Places' : log'[i] = f,
         \A g \in S : /\ g.run = Latest
                      /\ g = f \/ (/\ g.type = "call.abandoned" /\ task'.pc # "next"
                                   /\ \E n \in DOMAIN cs : g.arg = cs[n]),
         task'.pc = "next" => task'.todo = cs
  PROVE  RInv'
<1>1. /\ RType /\ Latest' = Latest /\ Latest \in Nat
      /\ task.pc \in Working /\ task.pc \notin {"exec", "stop"}
      /\ \A i \in Places' : IF i \in Places THEN log'[i] = log[i] ELSE log'[i] \in S
  BY OldOrNew DEF RInv, RType, Latest, Working, Busy
<1>2. /\ cs \in Seq(Calls) /\ IsInjective(cs)
      /\ \A n \in DOMAIN cs : cs[n] \in Range(cs) /\ cs[n] \notin Advertised
  BY BatchType
<1>3. /\ Advertised' = Advertised \cup Range(cs)
      /\ Advertised' \subseteq Calls /\ IsFiniteSet(Advertised')
  BY <1>2, MoreCalls
<1>4. RType'
  BY <1>1, <1>3 DEF RType, Grown
<1>5. Known' /\ OpenRun'
  <2>1. \A i \in Places' : log'[i].run <= Latest
    BY <1>1 DEF RInv, Known
  <2>2. \A i \in Places' : log'[i].run = Latest => log'[i].type \notin Terminals
    BY <1>1 DEF RInv, OpenRun, Terminals
  <2> QED BY <1>1, <2>1, <2>2 DEF RInv, Known, OpenRun
<1>6. \A i \in Places :
        log[i].type \in {"prepared", "call.completed", "call.abandoned"} => log[i].arg \in Advertised
  BY DEF RInv, CallFacts
<1>7. CallFacts'
  <2>1. \A i \in Places' :
          log'[i].type \in {"prepared", "call.completed", "call.abandoned"} => log'[i].arg \in Advertised'
    BY <1>1, <1>2, <1>3, <1>6
  <2>2. \A i, j \in Places' :
          /\ log'[i].type = "prepared" /\ log'[j].type = "call.completed" /\ log'[i].arg = log'[j].arg
          => log'[i].run = log'[j].run
    BY <1>1 DEF RInv, CallFacts
  <2>3. ASSUME NEW i \in Places', NEW j \in Places', log'[i].type = "prepared",
               log'[j].type = "call.abandoned", log'[i].run = Latest'
        PROVE  log'[i].arg # log'[j].arg
    <3>1. i \in Places /\ log'[i] = log[i] /\ log[i].arg \in Advertised
      BY <1>1, <1>6, <2>3
    <3>2. CASE j \in Places
      BY <1>1, <2>3, <3>1, <3>2 DEF RInv, CallFacts
    <3>3. CASE j \notin Places
      BY <1>1, <1>2, <2>3, <3>1, <3>3
    <3> QED BY <3>2, <3>3
  <2> QED BY <2>1, <2>2, <2>3 DEF CallFacts
<1>8. TaskCalls'
  <2>1. CASE task'.pc = "next"
    <3>1. \A n \in DOMAIN cs : \A i \in Places' :
            log'[i].type \in {"prepared", "call.completed", "call.abandoned"} => log'[i].arg # cs[n]
      BY <1>1, <1>2, <1>6, <2>1
    <3> QED BY <1>2, <1>3, <2>1, <3>1 DEF TaskCalls
  <2>2. CASE task'.pc # "next"
    BY <2>2 DEF TaskCalls, Busy
  <2> QED BY <2>1, <2>2
<1>9. Stillness'
  BY <1>1 DEF RInv, Stillness
<1>10. ToolWaits' /\ Checked' /\ LossIsSeen'
  BY <1>1 DEF RInv, ToolWaits, Checked, LossIsSeen
<1> QED BY <1>4, <1>5, <1>7, <1>8, <1>9, <1>10 DEF RInv

LEMMA RespondKeeps == ASSUME RInv, NEW cs \in Batches, Respond(cs) PROVE RInv'
<1>1. PICK f \in FactSet : f = Fact("response", Latest, cs) /\ f.type = "response"
                             /\ f.run = Latest /\ f.arg = cs
  BY FactType, Basics, BatchType DEF FactTypes, Args
<1>2. Emit(<<f>>) /\ cs \in Seq(Calls)
  BY <1>1, BatchType DEF Respond
<1>3. Grown({f}) /\ touched' \in BOOLEAN
  BY <1>2, EmitFact
<1>4. \E i \in Places' : log'[i] = f
  <2>1. <<>> \in Seq(FactSet) /\ log' = log \o (<<f>> \o <<>>)
    BY <1>2 DEF Emit
  <2> QED BY <2>1, EmitMore DEF RInv
<1>5. task' \in TaskSet /\ task'.pc \in {"complete", "next"} /\ (task'.pc = "next" => task'.todo = cs)
  <2>1. CASE cs = <<>>
    BY <2>1, AtType DEF Respond, Working
  <2>2. CASE cs # <<>>
    <3>1. task' = [pc |-> "next", call |-> None, todo |-> cs]
      BY <2>2 DEF Respond
    <3> QED BY <1>2, <3>1 DEF TaskSet, Working, Busy
  <2> QED BY <2>1, <2>2
<1> QED BY <1>1, <1>3, <1>4, <1>5, Responds DEF Respond

\* A truncated response and the answers to its calls.
LEMMA TruncatedFacts ==
  ASSUME RInv, NEW cs \in Batches, RespondTruncated(cs)
  PROVE  \E S : \E f \in FactSet :
           /\ Grown(S) /\ f \in S /\ f.type = "response" /\ f.run = Latest /\ f.arg = cs
           /\ \E i \in Places' : log'[i] = f
           /\ \A g \in S : /\ g.run = Latest
                           /\ g = f \/ (/\ g.type = "call.abandoned"
                                        /\ \E n \in DOMAIN cs : g.arg = cs[n])
           /\ \A n \in DOMAIN cs :
                \E i \in Places' : log'[i].type = "call.abandoned" /\ log'[i].arg = cs[n]
<1>1. PICK f \in FactSet : f = Fact("response", Latest, cs) /\ f.type = "response"
                             /\ f.run = Latest /\ f.arg = cs
  BY FactType, Basics, BatchType DEF FactTypes, Args
<1>2. PICK given : given = [i \in DOMAIN cs |-> Fact("call.abandoned", Latest, cs[i])]
  OBVIOUS
<1>3. /\ given \in Seq(FactSet)
      /\ \A n \in DOMAIN given : /\ n \in DOMAIN cs /\ given[n].type = "call.abandoned"
                                 /\ given[n].run = Latest /\ given[n].arg = cs[n]
  BY <1>2, Answers, Basics, BatchType
<1>4. log' = log \o (<<f>> \o given) /\ touched' = FALSE /\ task' = At("fail")
  BY <1>1, <1>2 DEF RespondTruncated, Emit
<1>5. PICK S : S = {f} \cup {given[n] : n \in DOMAIN given}
  OBVIOUS
<1>6. f \in S /\ \A n \in DOMAIN given : given[n] \in S
  BY <1>5
<1>7. /\ Grown(S) /\ \E i \in Places' : log'[i] = f
      /\ \A n \in DOMAIN given : \E i \in Places' : log'[i] = given[n]
  BY <1>3, <1>4, <1>6, EmitMore DEF RInv
<1>8. \A g \in S : /\ g.run = Latest
                   /\ g = f \/ (/\ g.type = "call.abandoned" /\ \E n \in DOMAIN cs : g.arg = cs[n])
  BY <1>1, <1>3, <1>5
<1>9. \A n \in DOMAIN cs :
        \E i \in Places' : log'[i].type = "call.abandoned" /\ log'[i].arg = cs[n]
  <2>1. DOMAIN given = DOMAIN cs
    BY <1>2
  <2> QED BY <1>3, <1>7, <2>1
<1> QED BY <1>1, <1>6, <1>7, <1>8, <1>9

LEMMA TruncatedKeeps == ASSUME RInv, NEW cs \in Batches, RespondTruncated(cs) PROVE RInv'
<1>1. PICK S : \E f \in FactSet :
        /\ Grown(S) /\ f \in S /\ f.type = "response" /\ f.run = Latest /\ f.arg = cs
        /\ \E i \in Places' : log'[i] = f
        /\ \A g \in S : /\ g.run = Latest
                        /\ g = f \/ (/\ g.type = "call.abandoned" /\ \E n \in DOMAIN cs : g.arg = cs[n])
  BY TruncatedFacts
<1>2. PICK f \in FactSet :
        /\ Grown(S) /\ f \in S /\ f.type = "response" /\ f.run = Latest /\ f.arg = cs
        /\ \E i \in Places' : log'[i] = f
        /\ \A g \in S : /\ g.run = Latest
                        /\ g = f \/ (/\ g.type = "call.abandoned" /\ \E n \in DOMAIN cs : g.arg = cs[n])
  BY <1>1
<1>3. /\ task' \in TaskSet /\ task'.pc = "fail" /\ touched' \in BOOLEAN
      /\ task.pc = "model" /\ up /\ UNCHANGED <<rows, tool, content, up, crashes, unseen>>
  BY AtType DEF Working, RespondTruncated, Emit
<1> QED BY <1>2, <1>3, Responds

-----------------------------------------------------------------------------
(***************************************************************************)
(* Admission.                                                              *)
(***************************************************************************)
\* What was checked stays so while neither the log nor the Runs change.
LEMMA CheckedStays ==
  ASSUME UNCHANGED <<log, rows>>, NEW k, k = Latest
  PROVE  /\ Latest' = k /\ LastCheckpoint(k)' = LastCheckpoint(k)
         /\ (Of(k) \cap Typed({"call.completed"}))' = Of(k) \cap Typed({"call.completed"})
         /\ OwnCalls(k, {"prepared"})' = OwnCalls(k, {"prepared"}) /\ Resolved' = Resolved
BY DEF Latest, LastCheckpoint, Of, Typed, OwnCalls, Resolved, CallsIn

\* The condition of Checked, of the Run k.
ReadyToContinue(k) ==
  /\ \A i \in Of(k) \cap Typed({"call.completed"}) :
       i > LastCheckpoint(k) => log[i].arg \in ReadOnly
  /\ OwnCalls(k, {"prepared"}) \subseteq ReadOnly \cup Resolved

LEMMA ReadyStays ==
  ASSUME UNCHANGED <<log, rows>>, task.pc = "continue" \/ ReadyToContinue(Latest), Checked
  PROVE  Checked'
<1>1. PICK k : k = Latest
  OBVIOUS
<1>2. ReadyToContinue(k)
  BY <1>1 DEF Checked, ReadyToContinue
<1>3. ReadyToContinue(k)'
  BY <1>1, <1>2, CheckedStays DEF ReadyToContinue
<1>4. Latest' = k
  BY <1>1, CheckedStays
<1> QED BY <1>3, <1>4 DEF Checked, ReadyToContinue

LEMMA CheckKeeps == ASSUME RInv, NEW continue \in BOOLEAN, CheckAdmission(continue) PROVE RInv'
<1>1. /\ up /\ task = Idle /\ task.pc = "idle" /\ task.pc \notin Working
      /\ UNCHANGED <<log, rows, tool, content, touched, up, crashes, unseen, left>>
      /\ task' = [Idle EXCEPT !.pc = IF continue THEN "continue" ELSE "prompt"]
  BY IdleType DEF CheckAdmission, Working, Busy
<1>2. /\ task' \in TaskSet /\ task'.pc \notin Working /\ task'.pc \notin Busy
      /\ task'.pc \notin {"exec", "stop", "created", "abandon"}
      /\ task'.pc = "continue" => continue
  BY <1>1, IdleType DEF TaskSet, Working, Busy
<1>3. Checked'
  <2>1. CASE continue
    <3>1. ReadyToContinue(Latest)
      BY <2>1 DEF CheckAdmission, Continuable, ReadyToContinue
    <3> QED BY <1>1, <3>1, ReadyStays DEF RInv
  <2>2. CASE ~ continue
    BY <1>2, <2>2 DEF Checked
  <2> QED BY <2>1, <2>2
<1>4. ToolWaits' /\ LossIsSeen'
  BY <1>1 DEF RInv, ToolWaits, LossIsSeen
<1>5. Grown({}) /\ touched' \in BOOLEAN
  BY <1>1, EmitNothing
<1>6. /\ tool' \in ToolSet /\ content' \in Contents /\ up' \in BOOLEAN /\ crashes' \in Nat
      /\ unseen' \subseteq unseen /\ unseen' \subseteq Calls /\ tool'.call = tool.call
  BY <1>1 DEF RInv, RType
<1> QED BY <1>1, <1>2, <1>3, <1>4, <1>5, <1>6, QuietStep

LEMMA OneMoreRun ==
  ASSUME RInv, NEW k \in Nat, rows' = Append(rows, k)
  PROVE  /\ rows' \in Seq(Nat) /\ Latest' = Latest + 1 /\ Latest \in Nat
         /\ \A i \in Places : log[i].run # Latest' /\ log[i].run <= Latest' /\ log[i].run \in Nat
<1>1. rows' \in Seq(Nat) /\ Latest' = Latest + 1 /\ Latest \in Nat
  BY AppendProperties DEF RInv, RType, Latest
<1>2. \A i \in Places : log[i].run \in Nat /\ log[i].run <= Latest
  <2>1. \A i \in Places : log[i] \in FactSet
    BY ElementOfSeq, LenProperties DEF RInv, RType, Places
  <2> QED BY <2>1 DEF RInv, Known, FactSet
<1>3. \A i \in Places : log[i].run # Latest + 1 /\ log[i].run <= Latest + 1
  BY <1>1, <1>2
<1> QED BY <1>1, <1>2, <1>3

LEMMA AbandonKeeps == ASSUME RInv, Abandon PROVE RInv'
<1>1. /\ up /\ task = Idle /\ task.pc = "idle" /\ task' = At("created")
      /\ UNCHANGED <<log, tool, content, touched, up, crashes, unseen, left>>
      /\ Latest \in Nat /\ rows' = Append(rows, Latest)
  BY IdleType, Basics DEF Abandon
<1>2. /\ rows' \in Seq(Nat) /\ Latest' = Latest + 1 /\ Latest' >= 1
      /\ \A i \in Places : log[i].run # Latest' /\ log[i].run <= Latest'
  BY <1>1, OneMoreRun
<1>3. task' \in TaskSet /\ task'.pc = "created"
  BY <1>1, AtType DEF Working
<1>4. Advertised' = Advertised /\ Places' = Places
  BY <1>1 DEF Advertised, Typed, Places
<1>5. RType'
  BY <1>1, <1>2, <1>3, <1>4 DEF RInv, RType
<1>6. Known' /\ OpenRun'
  BY <1>1, <1>2, <1>4 DEF Known, OpenRun
<1>7. CallFacts'
  BY <1>1, <1>2, <1>4 DEF RInv, CallFacts
<1>8. TaskCalls'
  BY <1>1, <1>2, <1>3, <1>4 DEF TaskCalls, Busy
<1>9. Stillness' /\ ToolWaits' /\ Checked' /\ LossIsSeen'
  BY <1>1, <1>3, <1>4 DEF RInv, Stillness, ToolWaits, Checked, LossIsSeen
<1> QED BY <1>5, <1>6, <1>7, <1>8, <1>9 DEF RInv

\* The facts of an admission: a Continue answers what is pending.
LEMMA AdmitFacts ==
  ASSUME RInv, Admit
  PROVE  \E S : /\ Grown(S)
                /\ \A h \in S : /\ h.type \in {"admitted", "checkpoint", "call.abandoned"}
                                /\ h.run = Latest'
                                /\ h.type = "call.abandoned" =>
                                     h.arg \in Advertised /\ task.pc = "continue"
                /\ task.pc = "continue" =>
                     \A c \in Pending : \E i \in Places' :
                       log'[i].type = "call.abandoned" /\ log'[i].arg = c
<1>1. /\ up /\ task.pc \in {"continue", "prompt"} /\ task' = At("queued") /\ RType
      /\ UNCHANGED <<tool, content, up, crashes, left>> /\ unseen' = {} /\ None \in Args
      /\ Latest \in Nat /\ Snapshot \in Args /\ touched' = FALSE
  BY Basics DEF Admit, Emit
<1>2. \E k \in Nat : rows' = Append(rows, k)
  BY <1>1 DEF Admit
<1>3. /\ rows' \in Seq(Nat) /\ Latest' \in Nat /\ Latest' >= 1
      /\ \A i \in Places : log[i].run # Latest' /\ log[i].run <= Latest'
  BY <1>2, OneMoreRun
<1>4. task' \in TaskSet /\ task'.pc = "queued"
  BY <1>1, AtType DEF Working
<1>5. PICK k \in Nat : k = Latest'
  BY <1>3
<1>6. PICK f \in FactSet : f = Fact("admitted", k, None) /\ f.type = "admitted" /\ f.run = k
  BY <1>1, FactType DEF FactTypes
<1>7. PICK g \in FactSet : g = Fact("checkpoint", k, Snapshot) /\ g.type = "checkpoint" /\ g.run = k
  BY <1>1, FactType DEF FactTypes
<1>8. PICK cs : cs = SetToSeq(Pending)
  OBVIOUS
<1>9. /\ cs \in Seq(Calls) /\ \A n \in DOMAIN cs : cs[n] \in Advertised
      /\ \A c \in Pending : \E n \in DOMAIN cs : cs[n] = c
  <2>1. Pending \subseteq Advertised /\ IsFiniteSet(Pending) /\ Advertised \subseteq Calls
    BY <1>1, FS_Subset DEF RType, Pending
  <2>2. cs \in Seq(Pending) /\ \A c \in Pending : \E n \in DOMAIN cs : cs[n] = c
    BY <1>8, <2>1, SeqOfSet
  <2>3. DOMAIN cs = 1 .. Len(cs) /\ \A n \in DOMAIN cs : cs[n] \in Pending
    BY <2>2, LenProperties, ElementOfSeq
  <2> QED BY <2>1, <2>2, <2>3
<1>10. PICK given : given = [i \in DOMAIN cs |-> Fact("call.abandoned", k, cs[i])]
  OBVIOUS
<1>11. /\ given \in Seq(FactSet)
       /\ \A n \in DOMAIN given : /\ n \in DOMAIN cs /\ given[n].type = "call.abandoned"
                                  /\ given[n].run = k /\ given[n].arg = cs[n]
  BY <1>9, <1>10, Answers
<1>12. PICK answers : answers = IF task.pc = "continue" THEN given ELSE <<>>
  OBVIOUS
<1>13. /\ answers \in Seq(FactSet)
       /\ \A n \in DOMAIN answers :
            /\ answers[n].type = "call.abandoned" /\ answers[n].run = k
            /\ answers[n].arg \in Advertised /\ task.pc = "continue"
  BY <1>9, <1>11, <1>12
<1>14. log' = log \o (<<f>> \o answers \o <<g>>)
  BY <1>1, <1>5, <1>6, <1>7, <1>8, <1>10, <1>12 DEF Admit, Emit, Abandoned
<1>15. PICK S : S = {f, g} \cup {answers[n] : n \in DOMAIN answers}
  OBVIOUS
<1>16. Grown(S) /\ \A n \in DOMAIN answers : \E i \in Places' : log'[i] = answers[n]
  <2>1. /\ <<f>> \in Seq(FactSet) /\ <<g>> \in Seq(FactSet) /\ answers \o <<g>> \in Seq(FactSet)
        /\ Len(answers) \in Nat /\ DOMAIN answers = 1 .. Len(answers)
        /\ Len(<<g>>) = 1 /\ <<g>>[1] = g
    BY <1>13, LenProperties
  <2>2. <<f>> \o answers \o <<g>> = <<f>> \o (answers \o <<g>>)
    BY <1>13, <2>1, ConcatAssociative
  <2>3. /\ DOMAIN (answers \o <<g>>) = 1 .. Len(answers) + 1
        /\ \A n \in 1 .. Len(answers) + 1 : (answers \o <<g>>)[n] =
             IF n <= Len(answers) THEN answers[n] ELSE <<g>>[n - Len(answers)]
    BY <1>13, <2>1, ConcatProperties, LenProperties
  <2>4. \A n \in DOMAIN (answers \o <<g>>) : (answers \o <<g>>)[n] \in S
    <3>1. ASSUME NEW n \in 1 .. Len(answers) + 1 PROVE (answers \o <<g>>)[n] \in S
      <4>1. n <= Len(answers) => n \in DOMAIN answers
        BY <2>1
      <4>2. ~ (n <= Len(answers)) => n - Len(answers) = 1
        BY <2>1
      <4> QED BY <1>15, <2>1, <2>3, <4>1, <4>2
    <3> QED BY <2>3, <3>1
  <2>5. f \in S
    BY <1>15
  <2>6. /\ Grown(S)
        /\ \A n \in DOMAIN (answers \o <<g>>) : \E i \in Places' : log'[i] = (answers \o <<g>>)[n]
    BY <1>1, <1>14, <2>1, <2>2, <2>4, <2>5, EmitMore
  <2>7. \A n \in DOMAIN answers :
          n \in DOMAIN (answers \o <<g>>) /\ (answers \o <<g>>)[n] = answers[n]
    BY <2>1, <2>3
  <2> QED BY <2>6, <2>7
<1>17. \A h \in S : /\ h.type \in {"admitted", "checkpoint", "call.abandoned"} /\ h.run = k
                    /\ h.type = "call.abandoned" => h.arg \in Advertised /\ task.pc = "continue"
  BY <1>6, <1>7, <1>13, <1>15
<1>18. ASSUME task.pc = "continue", NEW c \in Pending
       PROVE  \E i \in Places' : log'[i].type = "call.abandoned" /\ log'[i].arg = c
  <2>1. PICK n \in DOMAIN cs : cs[n] = c
    BY <1>9
  <2>2. answers = given /\ n \in DOMAIN answers
    BY <1>10, <1>12, <1>18
  <2> QED BY <1>11, <1>16, <2>1, <2>2
<1> QED BY <1>5, <1>16, <1>17, <1>18

LEMMA AdmitKeeps == ASSUME RInv, Admit PROVE RInv'
<1>1. /\ up /\ task.pc \in {"continue", "prompt"} /\ task' = At("queued") /\ RType
      /\ UNCHANGED <<tool, content, up, crashes, left>> /\ unseen' = {} /\ touched' = FALSE
      /\ Latest \in Nat
  BY Basics DEF Admit, Emit
<1>2. \E k \in Nat : rows' = Append(rows, k)
  BY <1>1 DEF Admit
<1>3. /\ rows' \in Seq(Nat) /\ Latest' \in Nat /\ Latest' >= 1
      /\ \A i \in Places : log[i].run # Latest' /\ log[i].run <= Latest'
  BY <1>2, OneMoreRun
<1>4. task' \in TaskSet /\ task'.pc = "queued"
  BY <1>1, AtType DEF Working
<1>5. PICK k \in Nat : k = Latest'
  BY <1>3
<1>6. PICK S : /\ Grown(S)
               /\ \A h \in S : /\ h.type \in {"admitted", "checkpoint", "call.abandoned"}
                               /\ h.run = Latest'
                               /\ h.type = "call.abandoned" => h.arg \in Advertised
  BY AdmitFacts
<1>7. \A h \in S : /\ h.type \in {"admitted", "checkpoint", "call.abandoned"} /\ h.run = k
                   /\ h.type = "call.abandoned" => h.arg \in Advertised
  BY <1>5, <1>6
<1>8. Advertised' = Advertised
  BY <1>6, <1>7, SameCalls
<1>9. \A i \in Places' : IF i \in Places THEN log'[i] = log[i] ELSE log'[i] \in S
  BY <1>1, <1>6, OldOrNew
<1>10. RType'
  BY <1>1, <1>3, <1>4, <1>6, <1>8 DEF RType, Grown
<1>11. Known' /\ OpenRun'
  <2>1. \A i \in Places' : log'[i].run <= Latest'
    BY <1>3, <1>5, <1>7, <1>9
  <2>2. \A i \in Places' : log'[i].run = Latest' => log'[i].type \notin Terminals
    BY <1>3, <1>7, <1>9 DEF Terminals
  <2> QED BY <1>3, <2>1, <2>2 DEF Known, OpenRun
<1>12. CallFacts'
  <2>1. \A i \in Places' :
          log'[i].type \in {"prepared", "call.completed", "call.abandoned"} => log'[i].arg \in Advertised'
    BY <1>7, <1>8, <1>9 DEF RInv, CallFacts
  <2>2. \A i, j \in Places' :
          /\ log'[i].type = "prepared" /\ log'[j].type = "call.completed" /\ log'[i].arg = log'[j].arg
          => log'[i].run = log'[j].run
    BY <1>7, <1>9 DEF RInv, CallFacts
  <2>3. \A i \in Places' : log'[i].type = "prepared" => log'[i].run # Latest'
    BY <1>3, <1>7, <1>9
  <2> QED BY <2>1, <2>2, <2>3 DEF CallFacts
<1>13. TaskCalls' /\ Checked' /\ LossIsSeen'
  BY <1>1, <1>4 DEF TaskCalls, Checked, LossIsSeen, Busy
<1>14. ToolWaits'
  BY <1>1 DEF RInv, ToolWaits
<1>15. Stillness'
  BY <1>1, <1>7, <1>9 DEF RInv, Stillness
<1> QED BY <1>10, <1>11, <1>12, <1>13, <1>14, <1>15 DEF RInv

-----------------------------------------------------------------------------
(***************************************************************************)
(* The world, the loss of the process, and recovery.                       *)
(***************************************************************************)
\* Nothing is recorded, and the task is as it was.
LEMMA WorldKeeps == ASSUME RInv, Act \/ Edit \/ OrphanEnds PROVE RInv'
<1>1. Grown({}) /\ UNCHANGED <<log, rows, task, up, crashes, left>>
  BY StandStill DEF Act, Edit, OrphanEnds, RInv
<1>2. Checked'
  <2>1. CASE task.pc = "continue"
    BY <1>1, <2>1, ReadyStays DEF RInv
  <2>2. CASE task.pc # "continue"
    BY <1>1, <2>2 DEF Checked
  <2> QED BY <2>1, <2>2
<1>3. /\ tool' \in ToolSet /\ tool'.call \in {tool.call, None} /\ content' \in Contents
      /\ touched' \in BOOLEAN
      /\ unseen' \subseteq unseen \cup ({tool.call} \ {None}) /\ unseen' \subseteq Calls
  <2>1. CASE Act
    <3>1. tool.call \in Calls /\ tool.call # None
      BY <2>1, RecoveryAssumption DEF Act, RecoveryAssumption
    <3>2. tool' \in ToolSet /\ tool'.call = tool.call
      BY <2>1 DEF Act, RInv, RType, ToolSet
    <3> QED BY <2>1, <3>1, <3>2 DEF Act, Change, RInv, RType
  <2>2. CASE Edit
    BY <2>2 DEF Edit, Change, RInv, RType
  <2>3. CASE OrphanEnds
    BY <2>3 DEF OrphanEnds, ToolIsOver, NoTool, ToolSet, RInv, RType
  <2> QED BY <2>1, <2>2, <2>3
<1>4. ToolWaits' /\ LossIsSeen'
  <2>1. tool'.call # None => tool'.call = tool.call /\ tool.call # None
    BY <1>3
  <2>2. ToolWaits'
    BY <1>1, <1>3, <2>1 DEF RInv, ToolWaits
  <2>3. Change \/ UNCHANGED <<content, touched, gap>>
    BY DEF Act, Edit, OrphanEnds
  <2>4. CASE Change /\ ~ up
    <3>1. CASE content' = content
      <4>1. touched' = touched /\ gap' = gap
        BY <2>4, <3>1 DEF Change
      <4> QED BY <1>1, <2>2, <2>4, <3>1, <4>1 DEF RInv, LossIsSeen
    <3>2. CASE content' # content
      <4>1. /\ gap' \in {"late", "newer", "untraced"}
            /\ gap' = "newer" => touched' /\ task.pc # "measured"
        BY <2>4, <3>2 DEF Change
      <4> QED BY <1>1, <2>2, <4>1 DEF LossIsSeen
    <3> QED BY <3>1, <3>2
  <2>5. CASE up
    BY <1>1, <2>2, <2>5 DEF LossIsSeen
  <2>6. CASE UNCHANGED <<content, touched, gap>>
    BY <1>1, <2>2, <2>6 DEF RInv, LossIsSeen
  <2> QED BY <2>3, <2>4, <2>5, <2>6
<1>5. task' \in TaskSet /\ up' \in BOOLEAN /\ crashes' \in Nat
  BY <1>1 DEF RInv, RType
<1> QED BY <1>1, <1>2, <1>3, <1>4, <1>5, QuietStep

LEMMA CrashKeeps == ASSUME RInv, Crash PROVE RInv'
<1>1. /\ UNCHANGED <<log, rows, content, touched, unseen>> /\ up' = FALSE /\ task' = Idle
      /\ crashes' = crashes + 1 /\ crashes \in Nat /\ left' = IF up THEN content ELSE left
      /\ gap' = IF up THEN "none" ELSE gap
      /\ tool' = NoTool \/ tool' = tool
  BY DEF Crash, RInv, RType
<1>2. Grown({}) /\ touched' \in BOOLEAN
  BY <1>1, EmitNothing
<1>3. /\ tool' \in ToolSet /\ tool'.call \in {tool.call, None} /\ content' \in Contents
      /\ unseen' \subseteq unseen /\ unseen' \subseteq Calls
  <2>1. NoTool \in ToolSet /\ NoTool.call = None
    BY DEF NoTool, ToolSet
  <2>2. tool' \in ToolSet /\ tool'.call \in {tool.call, None}
    BY <1>1, <2>1 DEF RInv, RType
  <2>3. content' \in Contents /\ unseen' \subseteq unseen /\ unseen' \subseteq Calls
    BY <1>1 DEF RInv, RType
  <2> QED BY <2>2, <2>3
<1>4. task' \in TaskSet /\ task'.pc = "idle"
  BY <1>1, IdleType
<1>5. crashes' \in Nat /\ crashes' # 0
  BY <1>1
<1>6. LossIsSeen'
  BY <1>1, <1>4 DEF RInv, LossIsSeen
<1>7. Checked' /\ ToolWaits'
  BY <1>4, <1>5 DEF Checked, ToolWaits
<1> QED BY <1>1, <1>2, <1>3, <1>4, <1>5, <1>6, <1>7, QuietStep DEF Working, Busy

LEMMA RecoverKeeps == ASSUME RInv, MeasureGap \/ RecoverCheckpoint \/ Recover PROVE RInv'
<1>1. /\ ~ up /\ crashes # 0 /\ UNCHANGED <<rows, tool, content, crashes, left>>
      /\ task'.pc \in {"idle", "measured", "recovered"} /\ task' \in TaskSet
  <2>0. CASE MeasureGap
    <3>1. At("measured") \in TaskSet /\ At("measured").pc = "measured"
      BY DEF At, RInv, RType, TaskSet
    <3> QED BY <2>0, <3>1 DEF MeasureGap, RInv, ToolWaits
  <2>1. CASE RecoverCheckpoint
    <3>1. At("recovered") \in TaskSet /\ At("recovered").pc = "recovered"
      BY DEF At, RInv, RType, TaskSet
    <3> QED BY <2>1, <3>1 DEF RecoverCheckpoint, RInv, ToolWaits
  <2>2. CASE Recover
    BY <2>2, IdleType DEF Recover, RInv, ToolWaits
  <2> QED BY <2>0, <2>1, <2>2
<1>2. Checked' /\ ToolWaits'
  BY <1>1 DEF Checked, ToolWaits
<1>3. /\ tool' \in ToolSet /\ tool'.call = tool.call /\ content' \in Contents /\ crashes' \in Nat
      /\ up' \in BOOLEAN
  BY <1>1 DEF MeasureGap, RecoverCheckpoint, Recover, RInv, RType
<1>6. CASE MeasureGap
  <2>1. UNCHANGED <<log, touched, up, unseen, gap>> /\ ~ touched
    BY <1>6 DEF MeasureGap, NothingNewer
  <2>2. Grown({}) /\ touched' \in BOOLEAN /\ unseen' \subseteq Calls
    BY <2>1, EmitNothing DEF RInv, RType
  <2>3. LossIsSeen'
    BY <1>1, <2>1 DEF RInv, LossIsSeen
  <2> QED BY <1>1, <1>2, <1>3, <2>1, <2>2, <2>3, QuietStep DEF Working, Busy
<1>4. CASE RecoverCheckpoint
  <2>1. EmitCheckpoint /\ UNCHANGED <<up, gap>> /\ task.pc = "measured"
    BY <1>4 DEF RecoverCheckpoint
  <2>2. PICK f : /\ Grown({f}) /\ f.run = Latest /\ f.type \notin Loud
    BY <2>1, CheckpointFact
  <2>3. touched' \in BOOLEAN /\ unseen' = {}
    BY <2>1, CheckpointFact
  <2>4. LossIsSeen'
    BY <1>1, <2>1 DEF RInv, LossIsSeen
  <2> QED BY <1>1, <1>2, <1>3, <2>2, <2>3, <2>4, QuietStep DEF Working, Busy
<1>5. CASE Recover
  <2>1. up' /\ LossIsSeen' /\ UNCHANGED unseen /\ unseen' \subseteq Calls
    BY <1>5 DEF Recover, LossIsSeen, RInv, RType
  <2>2. CASE Status(Latest) = "running"
    <3>1. PICK f \in FactSet : /\ f = Fact("interrupted", Latest, None) /\ f.type = "interrupted"
                               /\ f.run = Latest
      BY FactType, Basics DEF FactTypes
    <3>2. Emit(<<f>>) /\ f.type \notin Loud /\ f.type # "checkpoint"
      BY <1>5, <2>2, <3>1 DEF Recover, Loud
    <3>3. Grown({f}) /\ touched' \in BOOLEAN
      BY <3>2, EmitFact
    <3> QED BY <1>1, <1>2, <1>3, <2>1, <3>1, <3>2, <3>3, QuietStep DEF Working, Busy
  <2>3. CASE Status(Latest) # "running"
    <3>1. Grown({}) /\ touched' \in BOOLEAN
      BY <1>5, <2>3, EmitNothing DEF Recover
    <3> QED BY <1>1, <1>2, <1>3, <2>1, <3>1, QuietStep DEF Working, Busy
  <2> QED BY <2>2, <2>3
<1> QED BY <1>4, <1>5, <1>6

-----------------------------------------------------------------------------
LEMMA InitHolds == ASSUME Init PROVE RInv
<1>1. Places = {} /\ Latest = 0 /\ log \in Seq(FactSet) /\ rows \in Seq(Nat)
  BY EmptySeq DEF Init, Places, Latest
<1>2. task.pc = "idle" /\ task \in TaskSet /\ tool \in ToolSet /\ tool.call = None
  BY IdleType DEF Init, NoTool, ToolSet
<1>3. Advertised = {}
  BY <1>1 DEF Advertised, Typed, Places
<1>4. RType
  BY <1>1, <1>2, <1>3, FS_EmptySet DEF Init, RType
<1>5. Known /\ CallFacts /\ Stillness
  BY <1>1, <1>2 DEF Known, CallFacts, Stillness
<1>6. OpenRun /\ TaskCalls /\ Checked
  BY <1>2 DEF OpenRun, TaskCalls, Checked, Working, Busy
<1>7. ToolWaits /\ LossIsSeen
  BY <1>2 DEF Init, ToolWaits, LossIsSeen
<1> QED BY <1>4, <1>5, <1>6, <1>7 DEF RInv

LEMMA StutterKeeps == ASSUME RInv, UNCHANGED vars PROVE RInv'
BY DEF vars, RInv, RType, Known, OpenRun, CallFacts, TaskCalls, Stillness, ToolWaits, Checked,
       LossIsSeen, Places, Latest, Advertised, Typed, Of, LastCheckpoint, OwnCalls, Resolved, CallsIn

LEMMA StepKeeps == ASSUME RInv, [Next]_vars PROVE RInv'
<1>1. CASE \E continue \in BOOLEAN : CheckAdmission(continue)
  BY <1>1, CheckKeeps
<1>2. CASE Admit \/ Start \/ FirstCheckpoint \/ Ask
  BY <1>2, AdmitKeeps, StartKeeps, FirstKeeps, AskKeeps
<1>3. CASE StepFails \/ StopAtBudget \/ CallsDone \/ Escape \/ Cancel \/ Terminated \/ CancelPark
  BY <1>3, SilentMoves
<1>4. CASE \E cs \in Batches : Respond(cs) \/ RespondTruncated(cs)
  BY <1>4, RespondKeeps, TruncatedKeeps
<1>5. CASE Prepare \/ Complete \/ CompleteUnknown \/ PostCheckpoint \/ ParkLoop
  BY <1>5, PrepareKeeps, CompleteKeeps, UnknownKeeps, PostKeeps, ParkLoopKeeps
<1>6. CASE ParkCheckpoint \/ Finish \/ Abandon \/ AbandonStart \/ AbandonFinish
  BY <1>6, ParkKeeps, EndKeeps, AbandonKeeps, AbandonStartKeeps
<1>7. CASE \E c \in Calls : AbandonCall(c)
  BY <1>7, AbandonCallKeeps
<1>8. CASE Act \/ Edit \/ OrphanEnds \/ Crash \/ MeasureGap \/ RecoverCheckpoint \/ Recover
  BY <1>8, WorldKeeps, CrashKeeps, RecoverKeeps
<1>9. CASE UNCHANGED vars
  BY <1>9, StutterKeeps
<1> QED BY <1>1, <1>2, <1>3, <1>4, <1>5, <1>6, <1>7, <1>8, <1>9 DEF Next

\* The invariant the theorems rest on.
THEOREM RecoveryInvariant == Spec => []RInv
BY InitHolds, StepKeeps, PTL DEF Spec

-----------------------------------------------------------------------------
(***************************************************************************)
(* ADR-021: before the first loss of the process a tool acts only while    *)
(* its Run is unfinished and its task waits for it.                        *)
(***************************************************************************)
THEOREM ToolsStopWithTheirRun == Spec => []StoppedToolsAreStill
<1>1. ASSUME RInv, tool.call # None, crashes = 0
      PROVE  Executing /\ task.call = tool.call /\ Status(Latest) = "running"
  <2>1. up /\ task.pc \in {"exec", "stop"} /\ tool.call = task.call
    BY <1>1 DEF RInv, ToolWaits
  <2>2. Latest >= 1 /\ Of(Latest) \cap Typed(Terminals) = {}
    BY <1>1, <2>1 DEF RInv, OpenRun, Working, Busy, Of, Typed, Places
  <2>3. Latest # 0
    BY <1>1, <2>2, Basics
  <2> QED BY <2>1, <2>2, <2>3 DEF Executing, Status
<1>2. RInv => StoppedToolsAreStill
  BY <1>1 DEF StoppedToolsAreStill
<1> QED BY <1>2, RecoveryInvariant, PTL

\* A Run's last checkpoint is one of its checkpoints, if it has any.
LEMMA LastOfRun ==
  ASSUME RInv, NEW k \in Nat
  PROVE  /\ LastCheckpoint(k) \in 0 .. Len(log) /\ Len(log) \in Nat /\ Places = 1 .. Len(log)
         /\ LastCheckpoint(k) # 0 => log[LastCheckpoint(k)].type = "checkpoint"
<1>1. /\ Len(log) \in Nat /\ Places = 1 .. Len(log)
  BY LenProperties DEF RInv, RType, Places
<1>2. PICK T : T = {0} \cup (Of(k) \cap Typed({"checkpoint"}))
  OBVIOUS
<1>3. T \in SUBSET (0 .. Len(log)) /\ T # {}
  BY <1>1, <1>2 DEF Of, Typed, Places
<1>4. LastCheckpoint(k) \in T
  BY <1>1, <1>2, <1>3, MaxIn DEF LastCheckpoint
<1>5. LastCheckpoint(k) # 0 => log[LastCheckpoint(k)].type = "checkpoint"
  BY <1>2, <1>4 DEF Typed
<1> QED BY <1>1, <1>3, <1>4, <1>5

\* What has been checked, with what the invariant says of calls.
LEMMA CheckedCalls ==
  ASSUME RInv, task.pc = "continue", NEW c \in OwnCalls(Latest, {"prepared"}) \ ReadOnly
  PROVE  c \in CallsIn({"call.completed"}) /\ c # tool.call /\ c \notin unseen
<1>1. PICK i \in Places : log[i].type = "prepared" /\ log[i].run = Latest /\ log[i].arg = c
  BY DEF OwnCalls, Of, Typed, Places
<1>2. c \in Resolved
  BY DEF RInv, Checked
<1>3. PICK j \in Places : log[j].type \in {"call.completed", "call.abandoned"} /\ log[j].arg = c
  BY <1>2 DEF Resolved, CallsIn, Typed, Places
<1>4. log[j].type = "call.completed" /\ log[j].run = Latest
  BY <1>1, <1>3 DEF RInv, CallFacts
<1>5. c \in CallsIn({"call.completed"})
  BY <1>3, <1>4 DEF CallsIn, Typed, Places
<1>6. c # tool.call
  <2>1. CASE tool.call = None
    <3>1. c \in Calls
      BY <1>3, <1>4 DEF RInv, RType, CallFacts
    <3> QED BY <2>1, <3>1, RecoveryAssumption DEF RecoveryAssumption
  <2>2. CASE tool.call # None
    BY <1>3, <1>4, <2>2 DEF RInv, Stillness
  <2> QED BY <2>1, <2>2
<1>7. c \notin unseen
  <2>1. PICK m : m = LastCheckpoint(Latest)
    OBVIOUS
  <2>2. /\ m \in 0 .. Len(log) /\ Len(log) \in Nat /\ Places = 1 .. Len(log)
        /\ m # 0 => log[m].type = "checkpoint"
    BY <2>1, LastOfRun, Basics
  <2>3. j \in Of(Latest) \cap Typed({"call.completed"})
    BY <1>3, <1>4 DEF Of, Typed, Places
  <2>4. ~ (j > m)
    BY <1>3, <2>1, <2>3 DEF RInv, Checked
  <2>5. j <= m /\ m \in Places /\ log[m].type = "checkpoint"
    BY <2>2, <2>4
  <2>6. j < m
    BY <1>4, <2>2, <2>5
  <2> QED BY <1>3, <1>4, <2>5, <2>6 DEF RInv, Stillness
<1> QED BY <1>5, <1>6, <1>7

(***************************************************************************)
(* ADR-015, ADR-036: a Run is continued only if each of its side-effecting *)
(* calls is recorded as completed, no longer acts, and is covered by a     *)
(* checkpoint, whatever happened between the check and the admission.      *)
(***************************************************************************)
THEOREM ContinuesAreSound == Spec => ContinueIsSound
<1>1. ASSUME RInv, Continues
      PROVE  LET own == OwnCalls(Latest, {"prepared"}) \ ReadOnly
             IN /\ own \subseteq CallsIn({"call.completed"})
                /\ tool.call \notin own /\ own \cap unseen = {}
  BY <1>1, CheckedCalls DEF Continues
<1>2. RInv => [Continues =>
                 LET own == OwnCalls(Latest, {"prepared"}) \ ReadOnly
                 IN /\ own \subseteq CallsIn({"call.completed"})
                    /\ tool.call \notin own /\ own \cap unseen = {}]_vars
  BY <1>1
<1> QED BY <1>2, RecoveryInvariant, PTL DEF ContinueIsSound

(***************************************************************************)
(* ADR-036: the checkpoint that recovery appends is the source the Host    *)
(* died with, unless the last change since left no newer time or came      *)
(* after the look at the times.                                            *)
(***************************************************************************)
THEOREM RecoveriesAreHonest == Spec => RecoveryIsHonest
<1>1. ASSUME RInv, Next, ~ up, Len(log') > Len(log), log'[Len(log')].type = "checkpoint"
      PROVE  log'[Len(log')].arg = left \/ gap \in {"untraced", "late"}
  <2>1. log \in Seq(FactSet) /\ Len(log) \in Nat
    BY <1>1, LenProperties DEF RInv, RType
  <2>2. log' # log
    BY <1>1, <2>1
  <2>3. RecoverCheckpoint \/ Recover
    BY <1>1, <2>2 DEF Next, CheckAdmission, Admit, Start, FirstCheckpoint, Ask, StepFails,
      StopAtBudget, Respond, RespondTruncated, Prepare, CallsDone, Act, Complete, CompleteUnknown,
      Executing, Escape, PostCheckpoint, ParkLoop, Cancel, Terminated, ParkCheckpoint, CancelPark,
      Finish, Abandon, AbandonStart, AbandonFinish, AbandonCall, Edit, Crash, OrphanEnds, MeasureGap
  <2>4. ASSUME NEW f \in FactSet, Emit(<<f>>) PROVE log'[Len(log')] = f
    <3>1. log' = Append(log, f)
      BY <2>1, <2>4, AppendIsConcat DEF Emit
    <3>2. /\ Len(log') = Len(log) + 1 /\ log'[Len(log) + 1] = f
      BY <2>1, <3>1, AppendProperties
    <3> QED BY <3>2
  <2>5. CASE RecoverCheckpoint
    <3>1. PICK f \in FactSet :
            f = Fact("checkpoint", Latest, Snapshot) /\ f.type = "checkpoint" /\ f.arg = Snapshot
      BY <1>1, FactType, Basics DEF FactTypes
    <3>2. Emit(<<f>>) /\ Snapshot # None /\ task.pc = "measured"
      BY <2>5, <3>1 DEF RecoverCheckpoint, EmitCheckpoint
    <3>3. Snapshot = content /\ (content = left \/ gap \in {"untraced", "late"})
      BY <1>1, <3>2 DEF Snapshot, RInv, LossIsSeen
    <3> QED BY <2>4, <3>1, <3>2, <3>3
  <2>6. CASE Recover
    <3>1. PICK f \in FactSet : f = Fact("interrupted", Latest, None) /\ f.type = "interrupted"
      BY <1>1, FactType, Basics DEF FactTypes
    <3>2. Emit(<<f>>)
      BY <2>2, <2>6, <3>1 DEF Recover
    <3> QED BY <1>1, <2>4, <3>1, <3>2
  <2> QED BY <2>3, <2>5, <2>6
<1>2. RInv /\ [Next]_vars =>
        [Recovers => log'[Len(log')].arg = left \/ gap \in {"untraced", "late"}]_vars
  BY <1>1 DEF Recovers
<1> QED BY <1>2, RecoveryInvariant, PTL DEF RecoveryIsHonest, Spec

-----------------------------------------------------------------------------
(***************************************************************************)
(* Every call the model was promised a result for has one, unless its Run  *)
(* failed with the call prepared: the call that raised past the executor.  *)
(***************************************************************************)
\* The log has one of these facts of the Run.
Has(k, ts) == \E i \in Places : log[i].run = k /\ log[i].type \in ts

\* Unanswered calls that the Run, or a Run that failed, had prepared.
Raised(k) == {c \in Pending : \E i \in Places : /\ log[i].type = "prepared" /\ log[i].arg = c
                                                /\ log[i].run = k}
Stray     == {c \in Pending : \E i, j \in Places :
                /\ log[i].type = "prepared" /\ log[i].arg = c
                /\ log[j].type = "failed" /\ log[j].run = log[i].run}
Excused   == Pending = {} \/ (Raises /\ Stray # {})

\* A Run ends once; a process that accepts work has no open Run, and none that was interrupted
\* once a prompt was checked.
EndsOnce ==
  /\ \A i, j \in Places :
       /\ log[i].type \in Terminals /\ log[j].type \in Terminals /\ log[i].run = log[j].run
       => i = j
  /\ \A i \in Places : log[i].type \in Terminals => log[i].run >= 1
Closed   == up /\ task.pc \in {"idle", "prompt", "continue"} => Latest = 0 \/ Has(Latest, Terminals)
Prompted == task.pc = "prompt" => ~ Has(Latest, {"interrupted"})

\* What is unanswered at each place of the task.
Pairing ==
  /\ task.pc \notin Working /\ (Latest = 0 \/ Has(Latest, {"completed", "failed"})) => Excused
  /\ task.pc \in {"queued", "first", "turn"} => Excused
  /\ task.pc \in {"model", "complete"} => Pending = {}
  /\ task.pc \in {"next", "post"} => Pending \subseteq Range(task.todo)
  /\ task.pc \in {"exec", "stop"} =>
       Pending \subseteq {task.call} \cup Range(task.todo) /\ task.call \in Raised(Latest)
  /\ task.pc = "fail" => Excused \/ (Raises /\ Raised(Latest) # {})

PInv == RInv /\ EndsOnce /\ Closed /\ Prompted /\ Pairing

\* Without a response, what is unanswered is what was and has no answer among the new facts.
LEMMA StillPending ==
  ASSUME RInv, NEW S, Grown(S), \A f \in S : f.type # "response"
  PROVE  Pending' = {c \in Pending : \A i \in Places' :
                       log'[i].type \in {"call.completed", "call.abandoned"} => log'[i].arg # c}
<1>1. Advertised' = Advertised
  BY SameCalls
<1>2. Resolved' = {log'[i].arg : i \in {j \in Places' : log'[j].type \in {"call.completed", "call.abandoned"}}}
  BY DEF Resolved, CallsIn, Typed, Places
<1>3. Resolved = {log[i].arg : i \in {j \in Places : log[j].type \in {"call.completed", "call.abandoned"}}}
  BY DEF Resolved, CallsIn, Typed, Places
<1>4. \A i \in Places : i \in Places' /\ log'[i] = log[i]
  BY DEF Grown, Places
<1>5. Resolved \subseteq Resolved'
  BY <1>2, <1>3, <1>4
<1> QED BY <1>1, <1>2, <1>5 DEF Pending

\* Facts that are not about calls.
LEMMA SamePending ==
  ASSUME RInv, NEW S, Grown(S), \A f \in S : f.type \notin Loud
  PROVE  Pending' = Pending
<1>1. /\ Advertised' = Advertised
      /\ \A i \in Places' : log'[i].type \in Loud => i \in Places /\ log'[i] = log[i]
  BY QuietLog
<1>2. \A i \in Places : i \in Places' /\ log'[i] = log[i]
  BY DEF Grown, Places
<1>3. Typed({"call.completed", "call.abandoned"})' = Typed({"call.completed", "call.abandoned"})
  BY <1>1, <1>2 DEF Typed, Places, Loud
<1>4. \A i \in Typed({"call.completed", "call.abandoned"}) : log'[i] = log[i]
  BY <1>2 DEF Typed, Places
<1> QED BY <1>1, <1>3, <1>4 DEF Pending, Resolved, CallsIn

\* Old facts remain.
LEMMA HasStays ==
  ASSUME RInv, NEW S, Grown(S), NEW k, NEW ts
  PROVE  /\ Has(k, ts) => Has(k, ts)'
         /\ (\A f \in S : f.run = k => f.type \notin ts) => (Has(k, ts)' => Has(k, ts))
<1>1. \A i \in Places : i \in Places' /\ log'[i] = log[i]
  BY DEF Grown, Places
<1>2. \A i \in Places' : IF i \in Places THEN log'[i] = log[i] ELSE log'[i] \in S
  BY DEF Grown, Places
<1> QED BY <1>1, <1>2 DEF Has

LEMMA ExcuseStays ==
  ASSUME RInv, NEW S, Grown(S), Pending' = Pending, NEW k \in Nat
  PROVE  /\ Excused => Excused'
         /\ Raised(k) \subseteq Raised(k)'
<1>1. \A i \in Places : i \in Places' /\ log'[i] = log[i]
  BY DEF Grown, Places
<1>2. Stray \subseteq Stray'
  BY <1>1 DEF Stray
<1>3. Raised(k) \subseteq Raised(k)'
  BY <1>1 DEF Raised
<1> QED BY <1>2, <1>3 DEF Excused

LEMMA EndsStay ==
  ASSUME RInv, EndsOnce, NEW S, Grown(S), \A f \in S : f.type \notin Terminals
  PROVE  EndsOnce'
<1>1. \A i \in Places' : IF i \in Places THEN log'[i] = log[i] ELSE log'[i] \in S
  BY DEF Grown, Places
<1>2. \A i \in Places' : log'[i].type \in Terminals => i \in Places /\ log'[i] = log[i]
  BY <1>1
<1> QED BY <1>2 DEF EndsOnce

\* A terminal fact of a Run that has none.
LEMMA EndsLast ==
  ASSUME RInv, EndsOnce, Latest >= 1, ~ Has(Latest, Terminals), NEW f \in FactSet,
         f.run = Latest, Emit(<<f>>)
  PROVE  EndsOnce'
<1>1. Grown({f}) /\ Len(log') = Len(log) + 1
  BY EmitFact
<1>2. \A i \in Places' : IF i \in Places THEN log'[i] = log[i] ELSE log'[i] = f
  BY <1>1, OldOrNew DEF RInv
<1>3. \A i, j \in Places' : i \notin Places /\ j \notin Places => i = j
  <2>1. /\ Len(log) \in Nat /\ Len(log') \in Nat
        /\ Places = 1 .. Len(log) /\ Places' = 1 .. Len(log')
    BY <1>1, LenProperties DEF RInv, RType, Places, Grown
  <2> QED BY <1>1, <2>1
<1>4. \A i \in Places' : log'[i].type \in Terminals => log'[i].run >= 1
  BY <1>2 DEF EndsOnce
<1>5. ASSUME NEW i \in Places', NEW j \in Places', log'[i].type \in Terminals,
             log'[j].type \in Terminals, log'[i].run = log'[j].run
      PROVE  i = j
  BY <1>2, <1>3, <1>5 DEF EndsOnce, Has
<1> QED BY <1>4, <1>5 DEF EndsOnce

\* A step of the same Run that says nothing of calls and does not end it.
LEMMA QuietFacts ==
  ASSUME PInv, UNCHANGED rows, NEW S, Grown(S),
         \A f \in S : f.run = Latest /\ f.type \notin Loud /\ f.type \notin Terminals
  PROVE  /\ EndsOnce' /\ Pending' = Pending /\ Latest' = Latest
         /\ Excused => Excused'
         /\ Raised(Latest) \subseteq Raised(Latest)'
         /\ Has(Latest, Terminals)' <=> Has(Latest, Terminals)
         /\ Has(Latest, {"interrupted"})' <=> Has(Latest, {"interrupted"})
         /\ Has(Latest, {"completed", "failed"})' <=> Has(Latest, {"completed", "failed"})
<1>1. EndsOnce' /\ Pending' = Pending
  BY EndsStay, SamePending DEF PInv
<1>2. Latest' = Latest /\ Latest \in Nat
  BY Basics DEF PInv, Latest
<1>3. Excused => Excused'
  BY <1>1, <1>2, ExcuseStays DEF PInv
<1>4. \A i \in Places' : log'[i].type \in Terminals \cup Loud => i \in Places /\ log'[i] = log[i]
  BY DEF Grown, Places
<1>5. \A i \in Places : i \in Places' /\ log'[i] = log[i]
  BY DEF Grown, Places
<1>6. Raised(Latest) \subseteq Raised(Latest)'
  BY <1>1, <1>2, <1>5 DEF Raised
<1>7. \A i \in Places' : log'[i].type \in {"interrupted", "completed", "failed"} =>
                           i \in Places /\ log'[i] = log[i]
  BY <1>4 DEF Terminals
<1>8. /\ Has(Latest, Terminals)' <=> Has(Latest, Terminals)
      /\ Has(Latest, {"interrupted"})' <=> Has(Latest, {"interrupted"})
      /\ Has(Latest, {"completed", "failed"})' <=> Has(Latest, {"completed", "failed"})
  BY <1>2, <1>4, <1>5, <1>7 DEF Has
<1> QED BY <1>1, <1>2, <1>3, <1>6, <1>8

\* Where nothing is claimed of unanswered calls.
LEMMA Unclaimed ==
  ASSUME task'.pc \in {"exec", "stop", "park", "parkNow", "interrupt", "created", "abandon"}
  PROVE  /\ Closed' /\ Prompted'
         /\ task'.pc \in {"exec", "stop"} \/ Pairing'
BY DEF Closed, Prompted, Pairing, Working, Busy

\* Where it is claimed while the task works.
LEMMA Claimed ==
  ASSUME task'.pc \in Working
  PROVE  Closed' /\ Prompted'
BY DEF Closed, Prompted, Working, Busy

-----------------------------------------------------------------------------
LEMMA StartPairs == ASSUME PInv, Start PROVE EndsOnce' /\ Closed' /\ Prompted' /\ Pairing'
<1>0. RInv /\ UNCHANGED rows /\ Excused /\ task.pc = "queued"
  BY DEF PInv, Pairing, Start
<1>1. CASE Snapshot = Checkpoint(Latest)
  <2>1. PICK f \in FactSet : f = Fact("started", Latest, None) /\ f.type = "started" /\ f.run = Latest
    BY <1>0, FactType, Basics DEF FactTypes
  <2>2. Emit(<<f>>) /\ task' = At("first")
    BY <1>1, <2>1 DEF Start
  <2>3. f.type \notin Loud /\ f.type \notin Terminals
    BY <2>1 DEF Loud, Terminals
  <2>4. Grown({f})
    BY <1>0, <2>2, EmitFact
  <2>5. task'.pc = "first"
    BY <1>0, <2>2, AtType DEF Working
  <2>6. EndsOnce' /\ Excused'
    BY <1>0, <2>1, <2>3, <2>4, QuietFacts
  <2> QED BY <2>5, <2>6, Claimed DEF Pairing, Working
<1>2. CASE Snapshot # Checkpoint(Latest)
  <2>1. task' = At("fail") /\ UNCHANGED <<log, touched>>
    BY <1>2 DEF Start
  <2>2. Grown({}) /\ task'.pc = "fail"
    BY <1>0, <2>1, EmitNothing, AtType DEF Working
  <2>3. EndsOnce' /\ Excused'
    BY <1>0, <2>2, QuietFacts
  <2> QED BY <2>2, <2>3, Claimed DEF Pairing, Working, Busy
<1> QED BY <1>1, <1>2

LEMMA FirstPairs == ASSUME PInv, FirstCheckpoint PROVE EndsOnce' /\ Closed' /\ Prompted' /\ Pairing'
<1>1. /\ RInv /\ EmitCheckpoint /\ task.pc = "first" /\ UNCHANGED rows /\ task'.pc = "turn" /\ Excused
  BY AtType DEF FirstCheckpoint, Working, PInv, Pairing
<1>2. PICK f : /\ Grown({f}) /\ f.run = Latest /\ f.type \notin Loud /\ f.type \notin Terminals
  BY <1>1, CheckpointFact
<1>3. EndsOnce' /\ Excused'
  BY <1>1, <1>2, QuietFacts
<1> QED BY <1>1, <1>3, Claimed DEF Pairing, Working, Busy

LEMMA AskPairs == ASSUME PInv, Ask PROVE EndsOnce' /\ Closed' /\ Prompted' /\ Pairing'
<1>0. RInv /\ UNCHANGED rows /\ Excused /\ task.pc = "turn"
  BY DEF PInv, Pairing, Ask
<1>1. CASE Pending = {}
  <2>1. PICK f \in FactSet : f = Fact("request", Latest, None) /\ f.type = "request" /\ f.run = Latest
    BY <1>0, FactType, Basics DEF FactTypes
  <2>2. Emit(<<f>>) /\ task' = At("model")
    BY <1>1, <2>1 DEF Ask
  <2>3. f.type \notin Loud /\ f.type \notin Terminals
    BY <2>1 DEF Loud, Terminals
  <2>4. Grown({f}) /\ task'.pc = "model"
    BY <1>0, <2>2, EmitFact, AtType DEF Working
  <2>5. EndsOnce' /\ Pending' = {}
    BY <1>0, <1>1, <2>1, <2>3, <2>4, QuietFacts
  <2> QED BY <2>4, <2>5, Claimed DEF Pairing, Working, Busy
<1>2. CASE Pending # {}
  <2>1. task' = At("fail") /\ UNCHANGED <<log, touched>>
    BY <1>2 DEF Ask
  <2>2. Grown({}) /\ task'.pc = "fail"
    BY <1>0, <2>1, EmitNothing, AtType DEF Working
  <2>3. EndsOnce' /\ Excused'
    BY <1>0, <2>2, QuietFacts
  <2> QED BY <2>2, <2>3, Claimed DEF Pairing, Working, Busy
<1> QED BY <1>1, <1>2

\* The task moves on without a word.
LEMMA SilentPairs ==
  ASSUME PInv, \/ StepFails \/ StopAtBudget \/ CallsDone \/ Escape \/ Cancel \/ Terminated
               \/ CancelPark
  PROVE  EndsOnce' /\ Closed' /\ Prompted' /\ Pairing'
<1>1. RInv /\ UNCHANGED <<log, touched, rows>>
  BY DEF StepFails, StopAtBudget, CallsDone, Escape, Cancel, Terminated, CancelPark, PInv
<1>2. Grown({})
  BY <1>1, EmitNothing
<1>3. /\ EndsOnce' /\ Pending' = Pending /\ (Excused => Excused')
      /\ Raised(Latest) \subseteq Raised(Latest)'
  BY <1>1, <1>2, QuietFacts
<1>4. CASE task' \in {At("park"), At("parkNow"), At("interrupt")}
  <2>1. task'.pc \in {"park", "parkNow", "interrupt"}
    BY <1>1, <1>4, AtType DEF Working
  <2> QED BY <1>3, <2>1, Unclaimed
<1>5. CASE StepFails
  <2>1. task'.pc = "fail" /\ Excused
    BY <1>1, <1>5, AtType DEF StepFails, Working, PInv, Pairing, Excused
  <2> QED BY <1>3, <2>1, Claimed DEF Pairing, Working, Busy
<1>6. CASE CallsDone
  <2>1. task'.pc \in {"turn", "fail"} /\ Pending \subseteq Range(task.todo) /\ task.todo = <<>>
    BY <1>1, <1>6, AtType DEF CallsDone, Working, PInv, Pairing
  <2>2. Excused
    <3>1. Range(<<>>) = {}
      BY DEF Range
    <3> QED BY <2>1, <3>1 DEF Excused
  <2> QED BY <1>3, <2>1, <2>2, Claimed DEF Pairing, Working, Busy
<1>7. CASE Escape
  <2>1. task'.pc = "fail" /\ task.pc \in {"exec", "stop"}
    BY <1>1, <1>7, AtType DEF Escape, Executing, Working
  <2>2. task.call \in Raised(Latest) /\ Raises
    BY <1>7, <2>1 DEF PInv, Pairing, Escape
  <2> QED BY <1>3, <2>1, <2>2, Claimed DEF Pairing, Working, Busy
<1>8. CASE Cancel /\ task' = At("stop")
  <2>1. task.pc = "exec" /\ task'.pc = "stop" /\ task'.call = task.call /\ task'.todo = task.todo
    <3>1. task.pc = "exec" \/ At("stop") \in {At("park"), At("interrupt")}
      BY <1>8 DEF Cancel
    <3>2. \A pc \in {"stop", "park", "interrupt"} : At(pc).pc = pc
      BY <1>1, AtType DEF Working, Busy
    <3> QED BY <1>1, <1>8, <3>1, <3>2, AtType DEF Working, Busy
  <2>2. Pending \subseteq {task.call} \cup Range(task.todo) /\ task.call \in Raised(Latest)
    BY <2>1 DEF PInv, Pairing
  <2> QED BY <1>3, <2>1, <2>2, Unclaimed, Claimed DEF Pairing, Working, Busy
<1> QED BY <1>4, <1>5, <1>6, <1>7, <1>8
        DEF StepFails, StopAtBudget, CallsDone, Escape, Cancel, Terminated, CancelPark

LEMMA UnknownPairs == ASSUME PInv, CompleteUnknown PROVE EndsOnce' /\ Closed' /\ Prompted' /\ Pairing'
<1>1. RInv /\ UNCHANGED rows /\ task.call \in Args
  BY DEF CompleteUnknown, PInv, RInv, RType, TaskSet, Args
<1>2. PICK f \in FactSet : f = Fact("call.unknown", Latest, task.call) /\ f.type = "call.unknown"
                             /\ f.run = Latest
  BY <1>1, FactType, Basics DEF FactTypes
<1>3. Emit(<<f>>) /\ task' \in {At("park"), At("interrupt")}
  BY <1>2 DEF CompleteUnknown
<1>4. f.type \notin Loud /\ f.type \notin Terminals
  BY <1>2 DEF Loud, Terminals
<1>5. Grown({f}) /\ task'.pc \in {"park", "interrupt"}
  BY <1>1, <1>3, EmitFact, AtType DEF Working
<1>6. EndsOnce'
  BY <1>1, <1>2, <1>4, <1>5, QuietFacts
<1> QED BY <1>5, <1>6, Unclaimed

LEMMA PostPairs == ASSUME PInv, PostCheckpoint PROVE EndsOnce' /\ Closed' /\ Prompted' /\ Pairing'
<1>1. /\ RInv /\ EmitCheckpoint /\ UNCHANGED rows /\ task'.pc = "next" /\ task'.todo = task.todo
      /\ Pending \subseteq Range(task.todo)
  BY AtType DEF PostCheckpoint, Working, Busy, PInv, Pairing
<1>2. PICK f : /\ Grown({f}) /\ f.run = Latest /\ f.type \notin Loud /\ f.type \notin Terminals
  BY <1>1, CheckpointFact
<1>3. EndsOnce' /\ Pending' = Pending
  BY <1>1, <1>2, QuietFacts
<1> QED BY <1>1, <1>3, Claimed DEF Pairing, Working, Busy

LEMMA ParkPairs == ASSUME PInv, ParkCheckpoint PROVE EndsOnce' /\ Closed' /\ Prompted' /\ Pairing'
<1>1. RInv /\ UNCHANGED rows /\ task'.pc = "interrupt"
  BY AtType DEF ParkCheckpoint, Working, PInv
<1>2. CASE EmitCheckpoint
  BY <1>1, <1>2, CheckpointFact, QuietFacts, Unclaimed
<1>3. CASE UNCHANGED <<log, touched, unseen>>
  BY <1>1, <1>3, EmitNothing, QuietFacts, Unclaimed
<1> QED BY <1>2, <1>3 DEF ParkCheckpoint

LEMMA AbandonStartPairs ==
  ASSUME PInv, AbandonStart PROVE EndsOnce' /\ Closed' /\ Prompted' /\ Pairing'
<1>1. RInv /\ UNCHANGED rows
  BY DEF AbandonStart, PInv
<1>2. PICK f \in FactSet : f = Fact("started", Latest, None) /\ f.type = "started" /\ f.run = Latest
  BY <1>1, FactType, Basics DEF FactTypes
<1>3. Emit(<<f>>) /\ task' = At("abandon")
  BY <1>2 DEF AbandonStart
<1>4. f.type \notin Loud /\ f.type \notin Terminals
  BY <1>2 DEF Loud, Terminals
<1>5. Grown({f}) /\ task'.pc = "abandon"
  BY <1>1, <1>3, EmitFact, AtType DEF Working
<1> QED BY <1>1, <1>2, <1>4, <1>5, QuietFacts, Unclaimed

-----------------------------------------------------------------------------
\* Steps about calls.
LEMMA PreparePairs == ASSUME PInv, Prepare PROVE EndsOnce' /\ Closed' /\ Prompted' /\ Pairing'
<1>1. /\ RInv /\ task.pc = "next" /\ task.pc \in Busy /\ task.todo \in Seq(Calls) /\ task.todo # <<>>
      /\ Latest' = Latest /\ Latest \in Nat /\ Pending \subseteq Range(task.todo)
  BY Basics DEF Prepare, PInv, Pairing, RInv, RType, TaskSet, Busy, Latest
<1>2. PICK c \in Calls : c = Head(task.todo) /\ 1 \in DOMAIN task.todo /\ c = task.todo[1]
  BY <1>1, HeadTailProperties
<1>3. PICK f \in FactSet : f = Fact("prepared", Latest, c) /\ f.type = "prepared"
                             /\ f.run = Latest /\ f.arg = c
  BY <1>1, FactType, Basics DEF FactTypes, Args
<1>4. Emit(<<f>>) /\ task' = [pc |-> "exec", call |-> c, todo |-> Tail(task.todo)]
  BY <1>2, <1>3 DEF Prepare
<1>5. Grown({f}) /\ f.type # "response" /\ f.type \notin Terminals
  BY <1>1, <1>3, <1>4, EmitFact DEF Terminals
<1>6. EndsOnce'
  BY <1>1, <1>5, EndsStay DEF PInv
<1>7. \A i \in Places' : IF i \in Places THEN log'[i] = log[i] ELSE log'[i] = f
  BY <1>1, <1>5, OldOrNew DEF RInv
<1>8. Pending' = Pending
  <2>1. Pending' = {x \in Pending : \A i \in Places' :
                      log'[i].type \in {"call.completed", "call.abandoned"} => log'[i].arg # x}
    BY <1>1, <1>5, StillPending
  <2>2. ASSUME NEW x \in Pending, NEW i \in Places',
               log'[i].type \in {"call.completed", "call.abandoned"}
        PROVE  log'[i].arg # x
    <3>1. i \in Places /\ log[i].type \in {"call.completed", "call.abandoned"} /\ log'[i] = log[i]
      BY <1>3, <1>7, <2>2
    <3>2. log[i].arg \in Resolved
      BY <3>1 DEF Resolved, CallsIn, Typed, Places
    <3> QED BY <3>1, <3>2 DEF Pending
  <2> QED BY <2>1, <2>2
<1>9. c \in Pending
  <2>1. c \in Advertised /\ \A i \in Places :
          log[i].type \in {"prepared", "call.completed", "call.abandoned"} => log[i].arg # c
    BY <1>1, <1>2 DEF RInv, TaskCalls
  <2>2. c \notin Resolved
    BY <2>1 DEF Resolved, CallsIn, Typed, Places
  <2> QED BY <2>1, <2>2 DEF Pending
<1>10. c \in Raised(Latest)'
  <2>1. PICK i \in Places' : i \notin Places
    <3>1. Len(log') = Len(log) + 1
      BY <1>1, <1>4, EmitFact
    <3>2. /\ Len(log) \in Nat /\ Places = 1 .. Len(log) /\ Places' = 1 .. Len(log')
      BY <1>1, <1>5, LenProperties DEF RInv, RType, Places, Grown
    <3>3. Len(log) + 1 \in Places' /\ Len(log) + 1 \notin Places
      BY <3>1, <3>2
    <3> QED BY <3>3
  <2>2. log'[i].type = "prepared" /\ log'[i].arg = c /\ log'[i].run = Latest'
    BY <1>1, <1>3, <1>7, <2>1
  <2>3. c \in Pending'
    BY <1>8, <1>9
  <2> QED BY <2>2, <2>3 DEF Raised
<1>11. Range(task.todo) \subseteq {c} \cup Range(Tail(task.todo))
  <2>1. /\ Tail(task.todo) \in Seq(Calls) /\ Len(Tail(task.todo)) = Len(task.todo) - 1
        /\ \A n \in 1 .. Len(Tail(task.todo)) : Tail(task.todo)[n] = task.todo[n + 1]
    BY <1>1, HeadTailProperties
  <2>2. DOMAIN Tail(task.todo) = 1 .. Len(Tail(task.todo)) /\ DOMAIN task.todo = 1 .. Len(task.todo)
        /\ Len(task.todo) \in Nat
    BY <1>1, <2>1, LenProperties
  <2>3. ASSUME NEW n \in DOMAIN task.todo, n # 1
        PROVE  task.todo[n] \in Range(Tail(task.todo))
    <3>1. n - 1 \in DOMAIN Tail(task.todo) /\ (n - 1) + 1 = n
      BY <2>1, <2>2, <2>3
    <3>2. Tail(task.todo)[n - 1] = task.todo[n]
      BY <2>1, <2>2, <3>1
    <3> QED BY <3>1, <3>2 DEF Range
  <2> QED BY <1>2, <2>3 DEF Range
<1>12. task'.pc = "exec" /\ task'.call = c /\ task'.todo = Tail(task.todo)
  BY <1>4
<1> QED BY <1>1, <1>6, <1>8, <1>10, <1>11, <1>12, Unclaimed, Claimed DEF Pairing, Working, Busy

LEMMA CompletePairs == ASSUME PInv, Complete PROVE EndsOnce' /\ Closed' /\ Prompted' /\ Pairing'
<1>1. /\ RInv /\ task.pc \in {"exec", "stop"} /\ task.call \in Args
      /\ Pending \subseteq {task.call} \cup Range(task.todo)
  BY DEF Complete, Executing, PInv, Pairing, RInv, RType, TaskSet, Args
<1>2. PICK f \in FactSet : f = Fact("call.completed", Latest, task.call) /\ f.type = "call.completed"
                             /\ f.run = Latest /\ f.arg = task.call
  BY <1>1, FactType, Basics DEF FactTypes
<1>3. Emit(<<f>>) /\ task' \in {At("park"), At("parkNow"), At("next"), At("post")}
  BY <1>2 DEF Complete
<1>4. Grown({f}) /\ Len(log') = Len(log) + 1 /\ f.type # "response" /\ f.type \notin Terminals
  BY <1>1, <1>2, <1>3, EmitFact DEF Terminals
<1>5. EndsOnce'
  BY <1>1, <1>4, EndsStay DEF PInv
<1>6. \E i \in Places' : log'[i] = f
  <2>1. <<>> \in Seq(FactSet) /\ log' = log \o (<<f>> \o <<>>)
    BY <1>3 DEF Emit
  <2> QED BY <1>1, <2>1, EmitMore DEF RInv
<1>7. Pending' \subseteq Range(task.todo)
  <2>1. Pending' = {x \in Pending : \A i \in Places' :
                      log'[i].type \in {"call.completed", "call.abandoned"} => log'[i].arg # x}
    BY <1>1, <1>4, StillPending
  <2>2. task.call \notin Pending'
    BY <1>2, <1>6, <2>1
  <2> QED BY <1>1, <2>1, <2>2
<1>8. task'.pc \in {"park", "parkNow", "next", "post"} /\ task'.todo = task.todo
  BY <1>1, <1>3, AtType DEF Working, Busy
<1> QED BY <1>5, <1>7, <1>8, Unclaimed, Claimed DEF Pairing, Working, Busy

LEMMA ParkLoopPairs == ASSUME PInv, ParkLoop PROVE EndsOnce' /\ Closed' /\ Prompted' /\ Pairing'
<1>1. RInv /\ task' = At("park")
  BY DEF ParkLoop, PInv
<1>2. PICK S : Grown(S) /\ \A g \in S : g.type \in {"loop", "call.abandoned"}
  BY <1>1, LoopFacts
<1>3. EndsOnce'
  BY <1>1, <1>2, EndsStay DEF PInv, Terminals
<1>4. task'.pc = "park"
  BY <1>1, AtType DEF Working
<1> QED BY <1>3, <1>4, Unclaimed

LEMMA AbandonCallPairs ==
  ASSUME PInv, NEW c \in Calls, AbandonCall(c)
  PROVE  EndsOnce' /\ Closed' /\ Prompted' /\ Pairing'
<1>1. RInv /\ task'.pc = "abandon"
  BY DEF AbandonCall, PInv
<1>2. PICK f \in FactSet : f = Fact("call.abandoned", Latest, c) /\ f.type = "call.abandoned"
  BY <1>1, FactType, Basics DEF FactTypes, Args
<1>3. Emit(<<f>>) /\ f.type \notin Terminals
  BY <1>2 DEF AbandonCall, Terminals
<1>4. Grown({f})
  BY <1>1, <1>3, EmitFact
<1>5. EndsOnce'
  BY <1>1, <1>3, <1>4, EndsStay DEF PInv
<1> QED BY <1>1, <1>5, Unclaimed

\* After a response nothing but its calls is unanswered.
LEMMA RespondPairs ==
  ASSUME PInv, NEW cs \in Batches, Respond(cs)
  PROVE  EndsOnce' /\ Closed' /\ Prompted' /\ Pairing'
<1>1. RInv /\ Pending = {} /\ cs \in Seq(Calls)
  BY BatchType DEF Respond, PInv, Pairing
<1>2. PICK f \in FactSet : f = Fact("response", Latest, cs) /\ f.type = "response" /\ f.arg = cs
  BY <1>1, FactType, Basics DEF FactTypes, Args
<1>3. Emit(<<f>>) /\ f.type \notin Terminals
  BY <1>2 DEF Respond, Terminals
<1>4. Grown({f})
  BY <1>1, <1>3, EmitFact
<1>5. EndsOnce'
  BY <1>1, <1>3, <1>4, EndsStay DEF PInv
<1>6. \E i \in Places' : log'[i] = f
  <2>1. <<>> \in Seq(FactSet) /\ log' = log \o (<<f>> \o <<>>)
    BY <1>3 DEF Emit
  <2> QED BY <1>1, <2>1, EmitMore DEF RInv
<1>7. Advertised' = Advertised \cup Range(cs)
  <2>1. f \in {f} /\ \A g \in {f} : g.type = "response" => g = f
    OBVIOUS
  <2> QED BY <1>1, <1>2, <1>4, <1>6, <2>1, MoreCalls
<1>8. Resolved \subseteq Resolved'
  <2>1. \A i \in Places : i \in Places' /\ log'[i] = log[i]
    BY <1>4 DEF Grown, Places
  <2> QED BY <2>1 DEF Resolved, CallsIn, Typed, Places
<1>9. Pending' \subseteq Range(cs)
  BY <1>1, <1>7, <1>8 DEF Pending
<1>10. CASE cs = <<>>
  <2>1. Range(<<>>) = {}
    BY DEF Range
  <2>2. task'.pc = "complete" /\ Pending' = {}
    BY <1>1, <1>9, <1>10, <2>1, AtType DEF Respond, Working
  <2> QED BY <1>5, <2>2, Claimed DEF Pairing, Working, Busy
<1>11. CASE cs # <<>>
  <2>1. task'.pc = "next" /\ task'.todo = cs
    BY <1>11 DEF Respond
  <2> QED BY <1>5, <1>9, <2>1, Claimed DEF Pairing, Working, Busy
<1> QED BY <1>10, <1>11

LEMMA TruncatedPairs ==
  ASSUME PInv, NEW cs \in Batches, RespondTruncated(cs)
  PROVE  EndsOnce' /\ Closed' /\ Prompted' /\ Pairing'
<1>1. RInv /\ Pending = {} /\ cs \in Seq(Calls) /\ task' = At("fail")
  BY BatchType DEF RespondTruncated, PInv, Pairing
<1>2. PICK S : \E f \in FactSet :
        /\ Grown(S) /\ f \in S /\ f.type = "response" /\ f.run = Latest /\ f.arg = cs
        /\ \E i \in Places' : log'[i] = f
        /\ \A g \in S : /\ g.run = Latest
                        /\ g = f \/ (/\ g.type = "call.abandoned" /\ \E n \in DOMAIN cs : g.arg = cs[n])
        /\ \A n \in DOMAIN cs : \E i \in Places' : log'[i].type = "call.abandoned" /\ log'[i].arg = cs[n]
  BY <1>1, TruncatedFacts
<1>3. PICK f \in FactSet :
        /\ Grown(S) /\ f \in S /\ f.type = "response" /\ f.arg = cs
        /\ \E i \in Places' : log'[i] = f
        /\ \A g \in S : g = f \/ g.type = "call.abandoned"
        /\ \A n \in DOMAIN cs : \E i \in Places' : log'[i].type = "call.abandoned" /\ log'[i].arg = cs[n]
  BY <1>2
<1>4. EndsOnce'
  BY <1>1, <1>3, EndsStay DEF PInv, Terminals
<1>5. Advertised' = Advertised \cup Range(cs)
  <2>1. \A g \in S : g.type = "response" => g = f
    BY <1>3
  <2> QED BY <1>1, <1>3, <2>1, MoreCalls
<1>6. Resolved \subseteq Resolved' /\ Range(cs) \subseteq Resolved'
  <2>1. \A i \in Places : i \in Places' /\ log'[i] = log[i]
    BY <1>3 DEF Grown, Places
  <2>2. Resolved \subseteq Resolved'
    BY <2>1 DEF Resolved, CallsIn, Typed, Places
  <2>3. \A n \in DOMAIN cs : cs[n] \in Resolved'
    BY <1>3 DEF Resolved, CallsIn, Typed, Places
  <2> QED BY <2>2, <2>3 DEF Range
<1>7. Pending' = {} /\ task'.pc = "fail"
  BY <1>1, <1>5, <1>6, AtType DEF Pending, Working
<1> QED BY <1>4, <1>7, Claimed DEF Pairing, Working, Busy, Excused

-----------------------------------------------------------------------------
\* Admission, the end of a Run, and the loss of the process.
LEMMA EndIsStatus ==
  ASSUME EndsOnce, NEW i \in Places, log[i].type \in Terminals
  PROVE  Status(log[i].run) = log[i].type
<1>1. PICK k : k = log[i].run
  OBVIOUS
<1>2. PICK T : T = Of(k) \cap Typed(Terminals)
  OBVIOUS
<1>3. T = {i}
  BY <1>1, <1>2 DEF EndsOnce, Of, Typed, Places
<1>4. Min(T) = i
  <2>1. i \in Places /\ i = i
    OBVIOUS
  <2> QED BY <1>3 DEF Min
<1>5. k # 0
  BY <1>1 DEF EndsOnce
<1> QED BY <1>1, <1>2, <1>3, <1>4, <1>5 DEF Status

LEMMA CheckPairs ==
  ASSUME PInv, NEW continue \in BOOLEAN, CheckAdmission(continue)
  PROVE  EndsOnce' /\ Closed' /\ Prompted' /\ Pairing'
<1>1. /\ RInv /\ UNCHANGED <<log, touched, rows, up>> /\ up /\ task.pc = "idle"
      /\ task' = [Idle EXCEPT !.pc = IF continue THEN "continue" ELSE "prompt"]
  BY IdleType DEF CheckAdmission, PInv
<1>2. task'.pc \in {"continue", "prompt"} /\ (task'.pc = "prompt" => ~ continue)
  BY <1>1 DEF Idle
<1>3. task'.pc \notin Working /\ task.pc \notin Working
  BY <1>1, <1>2 DEF Working, Busy
<1>4. Grown({})
  BY <1>1, EmitNothing
<1>5. /\ EndsOnce' /\ Pending' = Pending /\ Latest' = Latest /\ (Excused => Excused')
      /\ Has(Latest, Terminals)' <=> Has(Latest, Terminals)
      /\ Has(Latest, {"interrupted"})' <=> Has(Latest, {"interrupted"})
      /\ Has(Latest, {"completed", "failed"})' <=> Has(Latest, {"completed", "failed"})
  BY <1>1, <1>4, QuietFacts
<1>6. Closed'
  BY <1>1, <1>5 DEF PInv, Closed
<1>7. Prompted'
  <2>1. ASSUME task'.pc = "prompt", Has(Latest, {"interrupted"}) PROVE FALSE
    <3>1. PICK i \in Places : log[i].run = Latest /\ log[i].type = "interrupted"
      BY <2>1 DEF Has
    <3>2. Status(Latest) = "interrupted"
      BY <3>1, EndIsStatus DEF PInv, Terminals
    <3>3. Status(Latest) # "interrupted"
      BY <1>2, <2>1 DEF CheckAdmission
    <3> QED BY <3>2, <3>3
  <2> QED BY <1>5, <2>1 DEF Prompted
<1>8. Pairing'
  BY <1>1, <1>2, <1>3, <1>5 DEF PInv, Pairing
<1> QED BY <1>5, <1>6, <1>7, <1>8

LEMMA AdmitPairs == ASSUME PInv, Admit PROVE EndsOnce' /\ Closed' /\ Prompted' /\ Pairing'
<1>1. RInv /\ up /\ task.pc \in {"continue", "prompt"} /\ task' = At("queued")
  BY DEF Admit, PInv
<1>2. PICK S : /\ Grown(S)
               /\ \A h \in S : /\ h.type \in {"admitted", "checkpoint", "call.abandoned"}
                               /\ h.type = "call.abandoned" => task.pc = "continue"
               /\ task.pc = "continue" =>
                    \A c \in Pending : \E i \in Places' :
                      log'[i].type = "call.abandoned" /\ log'[i].arg = c
  BY <1>1, AdmitFacts
<1>3. EndsOnce'
  BY <1>1, <1>2, EndsStay DEF PInv, Terminals
<1>4. Excused'
  <2>1. CASE task.pc = "continue"
    <3>1. Pending' = {c \in Pending : \A i \in Places' :
                        log'[i].type \in {"call.completed", "call.abandoned"} => log'[i].arg # c}
      BY <1>1, <1>2, StillPending
    <3>2. Pending' = {}
      BY <1>2, <2>1, <3>1
    <3> QED BY <3>2 DEF Excused
  <2>2. CASE task.pc = "prompt"
    <3>1. \A h \in S : h.type \notin Loud
      BY <1>2, <2>2 DEF Loud
    <3>2. Pending' = Pending
      BY <1>1, <1>2, <3>1, SamePending
    <3>3. Latest = 0 \/ Has(Latest, {"completed", "failed"})
      BY <1>1, <2>2 DEF PInv, Closed, Prompted, Has, Terminals
    <3>4. Excused
      BY <2>2, <3>3 DEF PInv, Pairing, Working, Busy
    <3> QED BY <1>1, <1>2, <3>2, <3>4, ExcuseStays
  <2> QED BY <1>1, <2>1, <2>2
<1>5. task'.pc = "queued"
  BY <1>1, AtType DEF Working
<1> QED BY <1>3, <1>4, <1>5, Claimed DEF Pairing, Working, Busy

LEMMA AbandonPairs == ASSUME PInv, Abandon PROVE EndsOnce' /\ Closed' /\ Prompted' /\ Pairing'
<1>1. RInv /\ UNCHANGED <<log, touched>> /\ task'.pc = "created"
  BY AtType DEF Abandon, PInv, Working
<1>2. EndsOnce'
  BY <1>1, EmitNothing, EndsStay DEF PInv
<1> QED BY <1>1, <1>2, Unclaimed

\* The task and the process stay as they are, and nothing is recorded.
LEMMA WorldPairs ==
  ASSUME PInv, Act \/ Edit \/ OrphanEnds
  PROVE  EndsOnce' /\ Closed' /\ Prompted' /\ Pairing'
<1>1. RInv /\ UNCHANGED <<log, rows, task, up>>
  BY DEF Act, Edit, OrphanEnds, PInv
<1>2. Places' = Places /\ Latest' = Latest /\ Pending' = Pending
  BY <1>1 DEF Places, Latest, Pending, Advertised, Resolved, CallsIn, Typed
<1>3. /\ Excused' <=> Excused
      /\ Raised(Latest)' = Raised(Latest)
      /\ Has(Latest, Terminals)' <=> Has(Latest, Terminals)
      /\ Has(Latest, {"interrupted"})' <=> Has(Latest, {"interrupted"})
      /\ Has(Latest, {"completed", "failed"})' <=> Has(Latest, {"completed", "failed"})
  BY <1>1, <1>2 DEF Excused, Stray, Raised, Has
<1>4. EndsOnce'
  BY <1>1, <1>2 DEF PInv, EndsOnce
<1> QED BY <1>1, <1>2, <1>3, <1>4 DEF PInv, Closed, Prompted, Pairing

LEMMA CrashPairs == ASSUME PInv, Crash PROVE EndsOnce' /\ Closed' /\ Prompted' /\ Pairing'
<1>1. RInv /\ UNCHANGED <<log, touched, rows>> /\ ~ up' /\ task'.pc = "idle"
  BY IdleType DEF Crash, PInv
<1>2. Grown({})
  BY <1>1, EmitNothing
<1>3. /\ EndsOnce' /\ Latest' = Latest /\ (Excused => Excused')
      /\ Has(Latest, {"completed", "failed"})' <=> Has(Latest, {"completed", "failed"})
  BY <1>1, <1>2, QuietFacts
<1>4. task.pc \in Working => ~ (Latest = 0 \/ Has(Latest, {"completed", "failed"}))
  BY <1>1, Basics DEF RInv, OpenRun, Has, Terminals
<1>5. Pairing'
  BY <1>1, <1>3, <1>4 DEF PInv, Pairing, Working, Busy
<1> QED BY <1>1, <1>3, <1>5 DEF Closed, Prompted

LEMMA GapPairs == ASSUME PInv, RecoverCheckpoint PROVE EndsOnce' /\ Closed' /\ Prompted' /\ Pairing'
<1>1. /\ RInv /\ EmitCheckpoint /\ UNCHANGED rows /\ task.pc = "measured" /\ task'.pc = "recovered"
  BY DEF RecoverCheckpoint, PInv, At, RInv, RType, TaskSet
<1>2. PICK f : /\ Grown({f}) /\ f.run = Latest /\ f.type \notin Loud /\ f.type \notin Terminals
  BY <1>1, CheckpointFact
<1>3. /\ EndsOnce' /\ Latest' = Latest /\ (Excused => Excused')
      /\ Has(Latest, {"completed", "failed"})' <=> Has(Latest, {"completed", "failed"})
  BY <1>1, <1>2, QuietFacts
<1>4. Pairing'
  BY <1>1, <1>3 DEF PInv, Pairing, Working, Busy
<1> QED BY <1>1, <1>3, <1>4 DEF Closed, Prompted

LEMMA MeasurePairs == ASSUME PInv, MeasureGap PROVE EndsOnce' /\ Closed' /\ Prompted' /\ Pairing'
<1>1. /\ RInv /\ UNCHANGED <<log, touched, rows, up>> /\ ~ up /\ task.pc = "idle"
      /\ task'.pc = "measured"
  BY IdleType DEF MeasureGap, PInv, At, RInv, RType, TaskSet
<1>2. /\ EndsOnce' /\ Latest' = Latest /\ (Excused => Excused')
      /\ Has(Latest, {"completed", "failed"})' <=> Has(Latest, {"completed", "failed"})
  BY <1>1, EmitNothing, QuietFacts
<1>3. Pairing'
  BY <1>1, <1>2 DEF PInv, Pairing, Working, Busy
<1> QED BY <1>1, <1>2, <1>3 DEF Closed, Prompted

\* A Run is running if and only if it has no terminal fact.
LEMMA RunsOpen ==
  ASSUME EndsOnce
  PROVE  Status(Latest) = "running" <=> Latest # 0 /\ ~ Has(Latest, Terminals)
<1>1. CASE Latest = 0
  BY <1>1 DEF Status
<1>2. CASE Latest # 0 /\ ~ Has(Latest, Terminals)
  <2>1. Of(Latest) \cap Typed(Terminals) = {}
    BY <1>2 DEF Has, Of, Typed, Places
  <2> QED BY <1>2, <2>1 DEF Status
<1>3. CASE Latest # 0 /\ Has(Latest, Terminals)
  <2>1. PICK i \in Places : log[i].run = Latest /\ log[i].type \in Terminals
    BY <1>3 DEF Has
  <2>2. Status(Latest) = log[i].type
    BY <2>1, EndIsStatus
  <2> QED BY <1>3, <2>1, <2>2 DEF Terminals
<1> QED BY <1>1, <1>2, <1>3

\* The last Run gets its terminal fact; what may be unanswered then.
LEMMA EndPairs ==
  ASSUME PInv, UNCHANGED rows, Latest >= 1, ~ Has(Latest, Terminals), NEW type \in Terminals,
         Emit(<<Fact(type, Latest, None)>>), task'.pc = "idle",
         \/ type = "interrupted" \/ Excused
         \/ type = "failed" /\ Raises /\ Raised(Latest) # {}
  PROVE  EndsOnce' /\ Closed' /\ Prompted' /\ Pairing'
<1>1. RInv /\ Latest' = Latest /\ type \in FactTypes /\ type \notin Loud
  BY DEF PInv, Latest, Terminals, FactTypes, Loud
<1>2. PICK f \in FactSet : f = Fact(type, Latest, None) /\ f.type = type /\ f.run = Latest
  BY <1>1, FactType, Basics
<1>3. Emit(<<f>>) /\ Grown({f}) /\ EndsOnce'
  BY <1>1, <1>2, EmitFact, EndsLast DEF PInv
<1>4. \E i \in Places' : log'[i] = f
  <2>1. <<>> \in Seq(FactSet) /\ log' = log \o (<<f>> \o <<>>)
    BY <1>3 DEF Emit
  <2> QED BY <1>1, <2>1, EmitMore DEF RInv
<1>5. Pending' = Pending
  BY <1>1, <1>2, <1>3, SamePending
<1>6. Closed' /\ Prompted'
  BY <1>1, <1>2, <1>4 DEF Closed, Prompted, Has
<1>7. type = "interrupted" => Latest' # 0 /\ ~ Has(Latest, {"completed", "failed"})'
  <2>1. ASSUME type = "interrupted", NEW i \in Places', log'[i].run = Latest',
               log'[i].type \in {"completed", "failed"}
        PROVE  FALSE
    <3>1. PICK j \in Places' : log'[j] = f
      BY <1>4
    <3>2. i = j
      BY <1>1, <1>2, <1>3, <2>1, <3>1 DEF EndsOnce, Terminals
    <3> QED BY <1>2, <2>1, <3>1, <3>2
  <2> QED BY <1>1, <2>1, Basics DEF Has
<1>8. type # "interrupted" => Excused'
  <2>1. CASE Excused
    BY <1>1, <1>3, <1>5, <2>1, ExcuseStays, Basics
  <2>2. CASE type = "failed" /\ Raises /\ Raised(Latest) # {}
    <3>1. PICK c \in Pending, i \in Places :
            log[i].type = "prepared" /\ log[i].arg = c /\ log[i].run = Latest
      BY <2>2 DEF Raised
    <3>2. PICK j \in Places' : log'[j] = f
      BY <1>4
    <3>3. i \in Places' /\ log'[i] = log[i]
      BY <1>3 DEF Grown, Places
    <3>4. c \in Stray'
      BY <1>2, <1>5, <2>2, <3>1, <3>2, <3>3 DEF Stray
    <3> QED BY <2>2, <3>4 DEF Excused
  <2> QED BY <2>1, <2>2
<1>9. Pairing'
  BY <1>7, <1>8 DEF Pairing, Working, Busy
<1> QED BY <1>3, <1>6, <1>9

LEMMA FinishPairs ==
  ASSUME PInv, Finish \/ AbandonFinish
  PROVE  EndsOnce' /\ Closed' /\ Prompted' /\ Pairing'
<1>1. /\ RInv /\ UNCHANGED rows /\ task.pc \in Working /\ task'.pc = "idle"
  BY IdleType DEF Finish, AbandonFinish, PInv, Working
<1>2. Latest >= 1 /\ ~ Has(Latest, Terminals)
  BY <1>1 DEF RInv, OpenRun, Has
<1>3. CASE AbandonFinish
  <2>1. "completed" \in Terminals /\ Emit(<<Fact("completed", Latest, None)>>) /\ Excused
    BY <1>3 DEF AbandonFinish, Terminals, Excused
  <2> QED BY <1>1, <1>2, <2>1, EndPairs
<1>4. CASE Finish /\ task.pc = "complete"
  <2>1. "completed" \in Terminals /\ Emit(<<Fact("completed", Latest, None)>>) /\ Excused
    BY <1>4 DEF Finish, Terminals, Excused, PInv, Pairing
  <2> QED BY <1>1, <1>2, <2>1, EndPairs
<1>5. CASE Finish /\ task.pc = "fail"
  <2>1. "failed" \in Terminals /\ Emit(<<Fact("failed", Latest, None)>>)
        /\ (Excused \/ (Raises /\ Raised(Latest) # {}))
    BY <1>5 DEF Finish, Terminals, PInv, Pairing
  <2> QED BY <1>1, <1>2, <2>1, EndPairs
<1>6. CASE Finish /\ task.pc = "interrupt"
  <2>1. "interrupted" \in Terminals /\ Emit(<<Fact("interrupted", Latest, None)>>)
    BY <1>6 DEF Finish, Terminals
  <2> QED BY <1>1, <1>2, <2>1, EndPairs
<1> QED BY <1>3, <1>4, <1>5, <1>6 DEF Finish

LEMMA RecoverPairs == ASSUME PInv, Recover PROVE EndsOnce' /\ Closed' /\ Prompted' /\ Pairing'
<1>1. RInv /\ UNCHANGED rows /\ task'.pc = "idle" /\ EndsOnce
  BY IdleType DEF Recover, PInv
<1>2. CASE Status(Latest) = "running"
  <2>1. Latest # 0 /\ ~ Has(Latest, Terminals)
    BY <1>1, <1>2, RunsOpen
  <2>2. Latest >= 1
    BY <1>1, <2>1, Basics
  <2>3. "interrupted" \in Terminals /\ Emit(<<Fact("interrupted", Latest, None)>>)
    BY <1>2 DEF Recover, Terminals
  <2> QED BY <1>1, <2>1, <2>2, <2>3, EndPairs
<1>3. CASE Status(Latest) # "running"
  <2>1. Latest = 0 \/ Has(Latest, Terminals)
    BY <1>1, <1>3, RunsOpen
  <2>2. task.pc \notin Working
    BY <1>1, <2>1, Basics DEF RInv, OpenRun, Has
  <2>3. UNCHANGED <<log, touched>>
    BY <1>3 DEF Recover
  <2>4. /\ EndsOnce' /\ Latest' = Latest /\ (Excused => Excused')
        /\ Has(Latest, Terminals)' <=> Has(Latest, Terminals)
        /\ Has(Latest, {"completed", "failed"})' <=> Has(Latest, {"completed", "failed"})
    BY <1>1, <2>3, EmitNothing, QuietFacts
  <2>5. Closed' /\ Prompted'
    BY <1>1, <2>1, <2>4 DEF Closed, Prompted
  <2>6. Pairing'
    BY <1>1, <2>2, <2>4 DEF PInv, Pairing, Working, Busy
  <2> QED BY <2>4, <2>5, <2>6
<1> QED BY <1>2, <1>3

LEMMA PairsAtFirst == ASSUME Init PROVE PInv
<1>1. RInv /\ task.pc = "idle"
  BY InitHolds, IdleType DEF Init
<1>2. Places = {} /\ Latest = 0
  BY DEF Init, Places, Latest
<1>3. Pending = {}
  BY <1>2 DEF Pending, Advertised, Typed, Places
<1>4. EndsOnce
  BY <1>2 DEF EndsOnce
<1> QED BY <1>1, <1>2, <1>3, <1>4 DEF PInv, Closed, Prompted, Pairing, Excused, Working, Busy

LEMMA StepPairs == ASSUME PInv, [Next]_vars PROVE PInv'
<1>1. RInv'
  BY StepKeeps DEF PInv
<1>2. CASE \E continue \in BOOLEAN : CheckAdmission(continue)
  BY <1>1, <1>2, CheckPairs DEF PInv
<1>3. CASE Admit \/ Start \/ FirstCheckpoint \/ Ask
  BY <1>1, <1>3, AdmitPairs, StartPairs, FirstPairs, AskPairs DEF PInv
<1>4. CASE StepFails \/ StopAtBudget \/ CallsDone \/ Escape \/ Cancel \/ Terminated \/ CancelPark
  BY <1>1, <1>4, SilentPairs DEF PInv
<1>5. CASE \E cs \in Batches : Respond(cs) \/ RespondTruncated(cs)
  BY <1>1, <1>5, RespondPairs, TruncatedPairs DEF PInv
<1>6. CASE Prepare \/ Complete \/ CompleteUnknown \/ PostCheckpoint \/ ParkLoop
  BY <1>1, <1>6, PreparePairs, CompletePairs, UnknownPairs, PostPairs, ParkLoopPairs DEF PInv
<1>7. CASE ParkCheckpoint \/ Finish \/ Abandon \/ AbandonStart \/ AbandonFinish
  BY <1>1, <1>7, ParkPairs, FinishPairs, AbandonPairs, AbandonStartPairs DEF PInv
<1>8. CASE \E c \in Calls : AbandonCall(c)
  BY <1>1, <1>8, AbandonCallPairs DEF PInv
<1>9. CASE Act \/ Edit \/ OrphanEnds
  BY <1>1, <1>9, WorldPairs DEF PInv
<1>10. CASE Crash \/ MeasureGap \/ RecoverCheckpoint \/ Recover
  BY <1>1, <1>10, CrashPairs, MeasurePairs, GapPairs, RecoverPairs DEF PInv
<1>11. CASE UNCHANGED vars
  <2>1. Places' = Places /\ Latest' = Latest /\ Pending' = Pending /\ UNCHANGED <<log, rows, task, up>>
    BY <1>11 DEF vars, Places, Latest, Pending, Advertised, Resolved, CallsIn, Typed
  <2>2. /\ Excused' <=> Excused
        /\ Raised(Latest)' = Raised(Latest)
        /\ Has(Latest, Terminals)' <=> Has(Latest, Terminals)
        /\ Has(Latest, {"interrupted"})' <=> Has(Latest, {"interrupted"})
        /\ Has(Latest, {"completed", "failed"})' <=> Has(Latest, {"completed", "failed"})
    BY <2>1 DEF Excused, Stray, Raised, Has
  <2>3. EndsOnce'
    BY <2>1 DEF PInv, EndsOnce
  <2> QED BY <1>1, <2>1, <2>2, <2>3 DEF PInv, Closed, Prompted, Pairing
<1> QED BY <1>2, <1>3, <1>4, <1>5, <1>6, <1>7, <1>8, <1>9, <1>10, <1>11 DEF Next

\* At each place of the task it is known which calls are unanswered and why: the invariant the
\* next two theorems rest on.
THEOREM PairingInvariant == Spec => []PInv
BY PairsAtFirst, StepPairs, PTL DEF Spec

\* An ended Run leaves no call unanswered, or one that raised.
LEMMA EndedIsExcused ==
  ASSUME PInv, up, task = Idle, Status(Latest) \in {"completed", "failed"}
  PROVE  Excused
<1>1. EndsOnce /\ task.pc \notin Working /\ task.pc = "idle"
  BY IdleType DEF PInv, Working, Busy
<1>2. Latest = 0 \/ Has(Latest, Terminals)
  BY <1>1 DEF PInv, Closed
<1>3. Latest = 0 \/ Has(Latest, {"completed", "failed"})
  <2>1. CASE Latest # 0
    <3>1. PICK i \in Places : log[i].run = Latest /\ log[i].type \in Terminals
      BY <1>2, <2>1 DEF Has
    <3>2. Status(Latest) = log[i].type
      BY <1>1, <3>1, EndIsStatus
    <3> QED BY <3>1, <3>2 DEF Has
  <2> QED BY <2>1
<1> QED BY <1>1, <1>3 DEF PInv, Pairing

(***************************************************************************)
(* A prompt finds every call of the history answered, unless a call of a   *)
(* failed Run had raised past the executor: for every interleaving of      *)
(* stops, losses of the process, recoveries, Continues and abandonments.   *)
(***************************************************************************)
THEOREM CallsArePaired == Spec => []UnpairedOnlyByEscape
<1>1. ASSUME PInv, up, task = Idle, Status(Latest) \in {"completed", "failed"}, Pending # {}
      PROVE  \E k \in 1 .. Latest :
               Status(k) = "failed" /\ ~ OwnCalls(k, {"prepared"}) \subseteq Resolved
  <2>1. RInv /\ EndsOnce
    BY <1>1 DEF PInv
  <2>2. Stray # {}
    BY <1>1, EndedIsExcused DEF Excused
  <2>3. PICK c \in Pending, i \in Places, j \in Places :
          /\ log[i].type = "prepared" /\ log[i].arg = c
          /\ log[j].type = "failed" /\ log[j].run = log[i].run
    BY <2>2 DEF Stray
  <2>4. PICK k : k = log[j].run
    OBVIOUS
  <2>5. Status(k) = "failed"
    BY <2>1, <2>3, <2>4, EndIsStatus DEF Terminals
  <2>6. k \in 1 .. Latest
    <3>1. log[j] \in FactSet
      BY <2>1, ElementOfSeq, LenProperties DEF RInv, RType, Places
    <3>2. k \in Nat /\ k <= Latest /\ k >= 1 /\ Latest \in Nat
      BY <2>1, <2>3, <2>4, <3>1, Basics DEF FactSet, RInv, Known, EndsOnce, Terminals
    <3> QED BY <3>2
  <2>7. c \in OwnCalls(k, {"prepared"}) /\ c \notin Resolved
    BY <2>3, <2>4 DEF OwnCalls, Of, Typed, Places, Pending
  <2> QED BY <2>5, <2>6, <2>7
<1>2. PInv => UnpairedOnlyByEscape
  BY <1>1 DEF UnpairedOnlyByEscape
<1> QED BY <1>2, PairingInvariant, PTL

(***************************************************************************)
(* A call that raises past the executor is the only way to a Session whose *)
(* next prompt finds a call unanswered (Ask cannot send that history):     *)
(* where no call raises, SessionUsable holds, which the run with such a    *)
(* call violates.                                                          *)
(***************************************************************************)
THEOREM UsableUnlessRaised == Spec => [](~ Raises => SessionUsable)
<1>1. PInv => (~ Raises => SessionUsable)
  BY EndedIsExcused DEF SessionUsable, Excused
<1> QED BY <1>1, PairingInvariant, PTL
=============================================================================
