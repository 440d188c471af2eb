--------------------------- MODULE KnowledgeIndex ---------------------------
(***************************************************************************)
(* The Workspace's knowledge index (rag/index.py, index_control.py,        *)
(* index_runtime.py) and the searches of a Run (retrieval_runtime.py,      *)
(* retrieval_rewrite.py).  A builder is one build of one program: two can  *)
(* work on the same file, and the Workspace is edited meanwhile.  A scan   *)
(* reads the files one after the other; no lock covers them.  An embedding *)
(* profile stands for the chunking identity, which is compared alike.      *)
(***************************************************************************)
EXTENDS Integers, Sequences, Absence

CONSTANTS
  MaxDocuments, Texts, \* files of the Workspace, as git lists them, and what they may hold
  Profiles,            \* embedding identities (provider, model, endpoint, algorithm)
  Builders,            \* builds, one Run each
  MaxRewrites, MaxIndexEvents \* bounds

Documents == 1..MaxDocuments

ASSUME IndexAssumption ==
  /\ MaxDocuments \in Nat \ {0}
  /\ None \notin Texts /\ None \notin Profiles /\ None \notin [text : Texts, profile : Profiles]

VARIABLES
  corpus,      \* the files now
  configured,  \* the profile of the Host's settings
  index,       \* index.sqlite: [generation, profile, rows]
  build,       \* per builder: [pc, force, profile, generation, existing, scan, verified]
  stopped,     \* builders whose Run was cancelled (the threading.Event)
  lookup,      \* the Run's search: [pc, profile, generation, pin, found, extra]
  corpusUsed   \* bounds used: [events, rewrites]; an event: an edit, a setting, a cancellation

indexVars == <<corpus, configured, index, build, stopped, lookup, corpusUsed>>

NoBuild == [pc |-> "new", force |-> FALSE, profile |-> None, generation |-> 0,
            existing |-> <<>>, scan |-> <<>>, verified |-> <<>>]
NoLookup == [pc |-> "idle", profile |-> None, generation |-> 0, pin |-> None, found |-> {},
             extra |-> {}]

IndexInit ==
  /\ corpus \in [Documents -> Texts] /\ configured \in Profiles
  /\ index = [generation |-> 0, profile |-> None, rows |-> [d \in Documents |-> None]]
  /\ build = [b \in Builders |-> NoBuild] /\ stopped = {} /\ lookup = NoLookup
  /\ corpusUsed = [events |-> 0, rewrites |-> 0]

Event == corpusUsed.events < MaxIndexEvents /\ corpusUsed' = [corpusUsed EXCEPT !.events = @ + 1]

EditCorpus ==
  /\ Event /\ \E d \in Documents, t \in Texts \cup {None} : corpus' = [corpus EXCEPT ![d] = t]
  /\ UNCHANGED <<configured, index, build, stopped, lookup>>

ConfigureIndex ==
  /\ Event /\ configured' \in Profiles \ {configured}
  /\ UNCHANGED <<corpus, index, build, stopped, lookup>>

(***************************************************************************)
(* A build: admit, _execute, build.                                        *)
(***************************************************************************)
Builds(b, from) == build[b].pc = from /\ UNCHANGED <<corpus, configured, stopped, lookup, corpusUsed>>

\* The request names the configuration it saw; the Run keeps the settings of now.
AdmitBuild(b, force) ==
  /\ Builds(b, "new") /\ UNCHANGED index
  /\ build' = [build EXCEPT ![b] = [NoBuild EXCEPT !.pc = "admitted", !.force = force, !.profile = configured]]

CancelBuild(b) ==
  /\ build[b].pc \notin {"new", "over"} /\ b \notin stopped /\ Event
  /\ stopped' = stopped \cup {b}
  /\ UNCHANGED <<corpus, configured, index, build, lookup>>

EndBuild(b) == build' = [build EXCEPT ![b] = [NoBuild EXCEPT !.pc = "over"]] /\ UNCHANGED index

OpenBuild(b) ==
  /\ Builds(b, "admitted") /\ UNCHANGED index
  /\ build' = [build EXCEPT ![b].pc = "opened", ![b].generation = index.generation]

\* The files of an index of the same profile are kept unless forced; the rows are read
\* after the generation, in a transaction of their own.
ReadIndex(b) ==
  /\ Builds(b, "opened")
  /\ IF ~ build[b].force /\ index.profile \notin {None, build[b].profile}
     THEN EndBuild(b)
     ELSE /\ UNCHANGED index
          /\ build' = [build EXCEPT ![b].pc = "scanning",
                                    ![b].existing = index.rows]

Scanned(texts) == Len(texts) = MaxDocuments
ScanNext(texts) == Append(texts, corpus[Len(texts) + 1])

ScanDocument(b) ==
  /\ Builds(b, "scanning") /\ UNCHANGED index
  /\ LET texts == ScanNext(build[b].scan)
     IN  build' = [build EXCEPT ![b].scan = texts,
                                ![b].pc = IF Scanned(texts) THEN "embedding" ELSE @]

\* Vectors are computed; a cancelled build goes no further, and no connection writes yet.
EmbedDocuments(b) ==
  /\ Builds(b, "embedding")
  /\ \/ b \in stopped /\ EndBuild(b)
     \/ EndBuild(b)
     \/ /\ b \notin stopped /\ UNCHANGED index
        /\ build' = [build EXCEPT ![b].pc = "embedded"]

\* Fault: whether another build published meanwhile is not asked.
AlwaysCurrent(b) == TRUE

StillCurrent(b) == index.generation = build[b].generation

HoldsWriteLock(b) == build[b].pc \in {"verifying", "committing"}

\* BEGIN IMMEDIATE: one builder at a time holds the write lock.
BeginPublication(b) ==
  /\ Builds(b, "embedded") /\ \A c \in Builders : ~ HoldsWriteLock(c)
  /\ IF b \in stopped \/ ~ StillCurrent(b) THEN EndBuild(b)
     ELSE UNCHANGED index /\ build' = [build EXCEPT ![b].pc = "verifying"]

VerifyDocument(b) ==
  /\ Builds(b, "verifying") /\ UNCHANGED index /\ ~ Scanned(build[b].verified)
  /\ build' = [build EXCEPT ![b].verified = ScanNext(@)]

\* The last look at the event, which is set by another thread: a build that is cancelled after
\* it publishes all the same.
CheckBuild(b) ==
  /\ Builds(b, "verifying") /\ Scanned(build[b].verified)
  /\ IF b \in stopped \/ build[b].verified # build[b].scan THEN EndBuild(b)
     ELSE UNCHANGED index /\ build' = [build EXCEPT ![b].pc = "committing"]

Row(text, profile) == IF text = None THEN None ELSE [text |-> text, profile |-> profile]
TextOf(row) == IF row = None THEN None ELSE row.text

\* COMMIT, or a failure of the database.  What changed since existing is written anew, what was
\* deleted goes, the rest stays.
CommitBuild(b) ==
  LET me == build[b]
      rewritten(d) == me.force \/ TextOf(me.existing[d]) # me.scan[d] IN
  /\ Builds(b, "committing")
  /\ \/ EndBuild(b)
     \/ /\ build' = [build EXCEPT ![b].pc = "over"]
        /\ index' = [generation |-> me.generation + 1, profile |-> me.profile,
                     rows |-> [d \in Documents |->
                       IF rewritten(d) THEN Row(me.scan[d], me.profile) ELSE index.rows[d]]]

(***************************************************************************)
(* A search with a rewritten query: query_rewrite_outcome.                 *)
(***************************************************************************)
LooksUp(from) == lookup.pc = from /\ UNCHANGED <<corpus, configured, index, build, stopped>>
NextStep(to) == lookup' = [lookup EXCEPT !.pc = to] /\ UNCHANGED corpusUsed
Answered(what) == lookup' = [lookup EXCEPT !.pc = "answered", !.pin = None, !.found = what,
                                           !.extra = {}] /\ UNCHANGED corpusUsed

\* The Run froze its profile when it started.
BeginLookup ==
  /\ LooksUp("idle") /\ index.generation > 0 /\ UNCHANGED corpusUsed
  /\ \E profile \in Profiles : lookup' = [NoLookup EXCEPT !.pc = "asked", !.profile = profile,
                                                          !.generation = index.generation]

\* Before the embedding request is paid for, and in the pinned snapshot after it.
ValidateProfile(from, to) ==
  LooksUp(from) /\ IF index.profile = lookup.profile THEN NextStep(to) ELSE Answered(lookup.found)

PinSnapshot(from, to) ==
  /\ LooksUp(from)
  /\ LET pin == [generation |-> index.generation, profile |-> index.profile] IN
     IF index.profile # lookup.profile THEN Answered(lookup.found)
     ELSE /\ lookup' = [lookup EXCEPT !.pc = to, !.pin = pin, !.extra = @ \cup {pin}]
          /\ UNCHANGED corpusUsed

\* The second path, in the same WAL read transaction.
SearchWords(from, to) ==
  /\ LooksUp(from) /\ UNCHANGED corpusUsed
  /\ lookup' = [lookup EXCEPT !.pc = to, !.extra = @ \cup {lookup.pin}]

\* The original's passages are kept; the index must not have moved on.
KeepOriginal ==
  /\ LooksUp("searched")
  /\ IF index.generation # lookup.generation \/ corpusUsed.rewrites >= MaxRewrites
     THEN Answered(lookup.extra)
     ELSE /\ lookup' = [lookup EXCEPT !.pc = "rewriting", !.found = lookup.extra, !.extra = {}]
          /\ corpusUsed' = [corpusUsed EXCEPT !.rewrites = @ + 1]

\* The rewritten query, or none that can be used.
RewriteQuery ==
  /\ LooksUp("rewriting")
  /\ \/ index.generation = lookup.generation /\ NextStep("asked again")
     \/ Answered(lookup.found)

\* Fault: nothing is asked after the supplement.
MergeAnyway == LooksUp("searched again") /\ Answered(lookup.found \cup lookup.extra)

MergeSupplement ==
  /\ LooksUp("searched again")
  /\ Answered(IF index.generation = lookup.generation THEN lookup.found \cup lookup.extra
                                                      ELSE lookup.found)

EndLookup == LooksUp("answered") /\ lookup' = NoLookup /\ UNCHANGED corpusUsed

IndexNext ==
  \/ EditCorpus \/ ConfigureIndex
  \/ \E b \in Builders :
       \/ \E force \in BOOLEAN : AdmitBuild(b, force)
       \/ CancelBuild(b) \/ OpenBuild(b) \/ ReadIndex(b) \/ ScanDocument(b)
       \/ EmbedDocuments(b) \/ BeginPublication(b) \/ VerifyDocument(b)
       \/ CheckBuild(b) \/ CommitBuild(b)
  \/ BeginLookup \/ ValidateProfile("asked", "valid") \/ PinSnapshot("valid", "dense")
  \/ SearchWords("dense", "searched") \/ KeepOriginal \/ RewriteQuery
  \/ ValidateProfile("asked again", "valid again") \/ PinSnapshot("valid again", "dense again")
  \/ SearchWords("dense again", "searched again") \/ MergeSupplement \/ EndLookup

IndexSpec == IndexInit /\ [][IndexNext]_indexVars

(***************************************************************************)
(* Properties.                                                             *)
(***************************************************************************)
\* A publication replaces the index by exactly what one build found, file for file, with
\* vectors of the profile it was admitted with, whoever published, edited or cancelled while it
\* worked (build: "commit the new snapshot atomically"; rows that did not change are not rewritten).
PublicationIsOneBuild ==
  [][index' # index => \E b \in Builders :
       /\ build[b].pc = "committing"
       /\ index'.profile = build[b].profile /\ index'.generation = index.generation + 1
       /\ index'.rows = [d \in Documents |-> Row(build[b].scan[d], index'.profile)]
    ]_indexVars

\* What a search answers comes from one generation of the index, built with the profile that
\* the query was embedded with, over two searches and two paths each.
AnswerIsOneIndex ==
  lookup.pc = "answered" =>
    \A p, q \in lookup.found : p = q /\ p.profile = lookup.profile
=============================================================================
