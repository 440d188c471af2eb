----------------------------- MODULE Preferences -----------------------------
(***************************************************************************)
(* Saved preferences (preference_memory.py): records and suggestions that  *)
(* the user's own messages are the sources of, edited and revoked over     *)
(* HTTP, selected once when a Run starts and looked at again before every  *)
(* request that carries them.  One key in two scopes stands for a topic;   *)
(* a Run's number is the event of its message.  Every decision is one      *)
(* transaction on the log (transact_facts).                                *)
(***************************************************************************)
EXTENDS Integers, FiniteSets, Sequences, Absence

CONSTANTS
  Contents,      \* what a preference may say
  MaxMessages, MaxDecisions, MaxAttempts \* bounds

Scopes == {"global", "project"}

VARIABLES
  memories,      \* per memory: its scope and its revisions [content, status, source]
  suggestions,   \* [scope, content, status, source]
  observed,      \* memory.observed: [event, fingerprint]
  enabled,       \* settings
  chat,          \* the Session's Run: [nth, pc, snapshot, allowed, sent]
  taken,         \* bounds used: [decisions, attempts]
  withdrawn      \* history: selected preferences the user paused or revoked since

preferenceVars == <<memories, suggestions, observed, enabled, chat, taken, withdrawn>>

NoChat == [nth |-> 0, pc |-> "ready", snapshot |-> {}, allowed |-> {}, sent |-> {}]

PreferenceInit ==
  /\ memories = <<>> /\ suggestions = <<>> /\ observed = <<>> /\ enabled = TRUE
  /\ chat = NoChat
  /\ taken = [decisions |-> 0, attempts |-> 0] /\ withdrawn = {}

Latest(m)  == m.revisions[Len(m.revisions)]
Live(m)    == Latest(m).status # "revoked"
Revision(content, status, source) == [content |-> content, status |-> status, source |-> source]
Memory(scope, content, source) ==
  [scope |-> scope, revisions |-> <<Revision(content, "active", source)>>]

\* _conflict: a topic has one preference that is not revoked.
Conflict(scope) == \E i \in DOMAIN memories : memories[i].scope = scope /\ Live(memories[i])
Decide == taken.decisions < MaxDecisions /\ taken' = [taken EXCEPT !.decisions = @ + 1]

(***************************************************************************)
(* The user's decisions: mutate.                                           *)
(***************************************************************************)
CreateMemory(scope, content) ==
  /\ ~ Conflict(scope) /\ Decide
  /\ memories' = Append(memories, Memory(scope, content, {}))
  /\ UNCHANGED <<suggestions, observed, enabled, chat, withdrawn>>

Carried == {ref.id : ref \in chat.snapshot}

\* An edit becomes its own source; what is revoked stays revoked.
UpdateMemory(i) ==
  LET old == Latest(memories[i]) IN
  /\ Live(memories[i]) /\ Decide
  /\ \E edit \in Contents \cup {None}, status \in {"active", "paused", "revoked"} :
       /\ memories' = [memories EXCEPT ![i].revisions = Append(@,
            IF edit = None THEN Revision(old.content, status, old.source)
                           ELSE Revision(edit, status, {}))]
       /\ withdrawn' = IF status = "active" THEN withdrawn ELSE withdrawn \cup ({i} \cap Carried)
  /\ UNCHANGED <<suggestions, observed, enabled, chat>>

SwitchMemory ==
  /\ enabled' = ~ enabled /\ Decide
  /\ UNCHANGED <<memories, suggestions, observed, chat, withdrawn>>

ResolveSuggestion(i) ==
  LET s == suggestions[i] IN
  /\ s.status = "pending" /\ Decide
  /\ \/ /\ ~ Conflict(s.scope)
        /\ memories' = Append(memories, Memory(s.scope, s.content, s.source))
        /\ suggestions' = [suggestions EXCEPT ![i].status = "accepted"]
     \/ suggestions' = [suggestions EXCEPT ![i].status = "dismissed"] /\ UNCHANGED memories
  /\ UNCHANGED <<observed, enabled, chat, withdrawn>>

(***************************************************************************)
(* A Run: observe_run, snapshot.                                           *)
(***************************************************************************)
\* What parse finds in a message: remember ..., preference ..., or nothing.
Messages == [explicit : BOOLEAN, scope : Scopes, content : Contents]
Understood == {m \in Messages : m.explicit \/ m.scope = "project"}

\* Every source that any revision or suggestion was bound to.
SourcesEverUsed ==
  UNION ((UNION {{memories[i].revisions[n].source : n \in DOMAIN memories[i].revisions} :
                 i \in DOMAIN memories})
         \cup {suggestions[i].source : i \in DOMAIN suggestions})

\* Earlier messages of the same content that nothing was made of.
Eligible(message) ==
  {o.event : o \in {observed[n] : n \in DOMAIN observed} \cap
     [event : 1..MaxMessages, fingerprint : {[scope |-> message.scope, content |-> message.content]}]}
  \ SourcesEverUsed

Observe(r, message) ==
  LET older == Eligible(message) IN
  /\ observed' = Append(observed, [event |-> r, fingerprint |-> [scope |-> message.scope,
                                                                 content |-> message.content]])
  /\ CASE Conflict(message.scope) -> UNCHANGED <<memories, suggestions>>
       [] ~ Conflict(message.scope) /\ message.explicit ->
            /\ memories' = Append(memories, Memory(message.scope, message.content, {r}))
            /\ UNCHANGED suggestions
       [] OTHER ->
            /\ UNCHANGED memories
            /\ suggestions' = IF older = {} THEN suggestions ELSE
                 LET last == CHOOSE e \in older : \A f \in older : f <= e IN
                 Append(suggestions, [scope |-> message.scope, content |-> message.content,
                                      status |-> "pending", source |-> {last, r}])

ObserveRun ==
  /\ chat.pc = "ready" /\ chat.nth < MaxMessages
  /\ \E message \in Understood \cup {None} :
       IF message = None \/ (~ enabled /\ ~ message.explicit)
       THEN UNCHANGED <<memories, suggestions, observed>>
       ELSE Observe(chat.nth + 1, message)
  /\ chat' = [NoChat EXCEPT !.nth = chat.nth + 1, !.pc = "observed"] /\ withdrawn' = {}
  /\ UNCHANGED <<enabled, taken>>

\* Active preferences; the project's refines the global one.
Selected ==
  LET active(scope) == {[id |-> i, revision |-> Len(memories[i].revisions)] :
        i \in {j \in DOMAIN memories : memories[j].scope = scope
                                       /\ Latest(memories[j]).status = "active"}}
  IN  IF ~ enabled THEN {}
      ELSE IF active("project") # {} THEN active("project") ELSE active("global")

SnapshotRun ==
  /\ chat.pc = "observed"
  /\ chat' = [chat EXCEPT !.pc = "ready", !.snapshot = Selected]
  /\ UNCHANGED <<memories, suggestions, observed, enabled, taken, withdrawn>>

(***************************************************************************)
(* A request: _model_attempt, _complete_request, context.                  *)
(***************************************************************************)
\* Active now, and in every revision since the one that was selected.
Usable(ref) ==
  \A n \in ref.revision..Len(memories[ref.id].revisions) :
    memories[ref.id].revisions[n].status = "active"

\* context: what of the snapshot may still be sent.
Injected(refs) == IF enabled THEN {ref \in refs : Usable(ref)} ELSE {}

BeginRequest ==
  /\ chat.pc = "ready" /\ chat.nth > 0 /\ taken.attempts < MaxAttempts
  /\ taken' = [taken EXCEPT !.attempts = @ + 1]
  /\ chat' = [chat EXCEPT !.pc = "begun", !.allowed = Injected(chat.snapshot)]
  /\ UNCHANGED <<memories, suggestions, observed, enabled, withdrawn>>

\* Fault: what was rendered when the attempt began is sent.
SendRendered ==
  /\ chat.pc = "begun"
  /\ chat' = [chat EXCEPT !.pc = "ready", !.sent = chat.allowed, !.allowed = {}]
  /\ UNCHANGED <<memories, suggestions, observed, enabled, taken, withdrawn>>

\* Looked at once more, with no await before the provider is entered.
SendRequest ==
  /\ chat.pc = "begun"
  /\ chat' = [chat EXCEPT !.pc = "ready", !.sent = Injected(chat.allowed), !.allowed = {}]
  /\ UNCHANGED <<memories, suggestions, observed, enabled, taken, withdrawn>>

PreferenceNext ==
  \/ \E scope \in Scopes, content \in Contents : CreateMemory(scope, content)
  \/ \E i \in DOMAIN memories : UpdateMemory(i)
  \/ \E i \in DOMAIN suggestions : ResolveSuggestion(i)
  \/ SwitchMemory
  \/ ObserveRun \/ SnapshotRun \/ BeginRequest \/ SendRequest

(***************************************************************************)
(* Properties.                                                             *)
(***************************************************************************)
\* Once the user has paused or revoked a preference that a Run has selected, no later request of
\* that Run carries it: not when it was resumed meanwhile, nor when the user decides between the
\* attempt's receipt and the dispatch; and none carries any while memory is off (WARNING: pausing,
\* revoking and switching off count from the next request).  An edit that leaves it active counts
\* from the next Run only: until then the selected content goes on.
OnlyStandingIsSent ==
  [][chat.pc = "begun" /\ chat'.pc = "ready" =>
       /\ chat'.sent # {} => enabled /\ chat'.sent \subseteq chat.snapshot
       /\ \A ref \in chat'.sent : ref.id \notin withdrawn]_preferenceVars

\* A message is the source of at most one preference or suggestion of its own, whatever was
\* edited, dismissed or revoked since; and a topic has one preference at most (observe_run:
\* "Every historical source stays suppressed after edit/dismissal/revocation").
SourcesAreUsedOnce ==
  LET told == {i \in DOMAIN memories : Cardinality(memories[i].revisions[1].source) = 1}
      ever(i) == memories[i].revisions[1].source
  IN
  /\ \A i, j \in DOMAIN suggestions : i # j => suggestions[i].source \cap suggestions[j].source = {}
  /\ \A i \in told, j \in DOMAIN suggestions : ever(i) \cap suggestions[j].source = {}
  /\ \A i, j \in DOMAIN memories : i # j /\ memories[i].scope = memories[j].scope =>
       ~ Live(memories[i]) \/ ~ Live(memories[j])

\* Both: a preference comes from its own message, and is not sent once it is withdrawn.
PreferencesAreRespected == []SourcesAreUsedOnce /\ OnlyStandingIsSent
=============================================================================
