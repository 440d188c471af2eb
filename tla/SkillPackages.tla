---------------------------- MODULE SkillPackages ----------------------------
(***************************************************************************)
(* The versions of one Skill (skill_packages.py, skill_runtime.py,         *)
(* skills.py): imported from a source, kept under their content's hash,    *)
(* pinned by the user, frozen when a Run is admitted and restored when it  *)
(* starts.  An import and an admission write into the same shelf in        *)
(* threads of their own.  A version is the hash of its bytes; whoever      *)
(* inspects a package reads all of them.                                   *)
(***************************************************************************)
EXTENDS Integers, Sequences, Absence

CONSTANTS
  SkillVersions,        \* contents, each its own hash
  MaxImports, MaxSkillRuns, MaxSkillEvents \* bounds

Writers == {"import", "run"}
Origins == {"user", "project"}

VARIABLES
  shelf,        \* skill-packages/<name>/<version>: the bytes there, or None
  offered,      \* the directory or archive that is imported
  checkedOut,   \* the Workspace's own skills directory: a version or None
  seen,         \* versions the preflight of an import request showed
  installed,    \* skill.installed
  pinned,       \* skills.configured: the user version, or None
  writer,       \* per writer: [pc, hold (versions still to put on the shelf)]
  skillRun,     \* the Run: [pc, snapshot, catalog]
  skillUsed     \* bounds used: [imports, runs, events]

shelfVars == <<shelf, offered, checkedOut>>
decisionVars == <<seen, installed, pinned>>
skillVars == <<shelf, offered, checkedOut, seen, installed, pinned, writer, skillRun, skillUsed>>

NoWork == [pc |-> "idle", hold |-> <<>>]
NoSkills == [o \in Origins |-> None]
NoSkillRun == [pc |-> "idle", snapshot |-> NoSkills, catalog |-> NoSkills]

SkillInit ==
  /\ shelf = [v \in SkillVersions |-> None] /\ offered \in SkillVersions
  /\ checkedOut \in SkillVersions \cup {None}
  /\ seen = {} /\ installed = {} /\ pinned = None
  /\ writer = [w \in Writers |-> NoWork] /\ skillRun = NoSkillRun
  /\ skillUsed = [imports |-> 0, runs |-> 0, events |-> 0]

\* The directory or archive is read whole, or rejected when it changes meanwhile.
ReadSource == offered

\* inspect_version: the bytes still have the hash they are kept under.
Sound(v) == shelf[v] = v

(***************************************************************************)
(* Other programs.                                                         *)
(***************************************************************************)
TouchFiles ==
  /\ skillUsed.events < MaxSkillEvents /\ skillUsed' = [skillUsed EXCEPT !.events = @ + 1]
  /\ \/ offered' \in SkillVersions /\ UNCHANGED <<shelf, checkedOut>>
     \/ checkedOut' \in SkillVersions \cup {None} /\ UNCHANGED <<shelf, offered>>
     \/ \E v, bytes \in SkillVersions :
          /\ shelf[v] # None /\ shelf' = [shelf EXCEPT ![v] = bytes]
          /\ UNCHANGED <<offered, checkedOut>>
  /\ UNCHANGED <<decisionVars, writer, skillRun>>

(***************************************************************************)
(* Putting a version on the shelf: _import.                                *)
(***************************************************************************)
Writes(w, from) == writer[w].pc = from
WriterGoes(w, to) == writer' = [writer EXCEPT ![w].pc = to]
WriterFails(w) ==
  /\ writer' = [writer EXCEPT ![w] = NoWork]
  /\ skillRun' = IF w = "run" THEN NoSkillRun ELSE skillRun

StagePackage(w) ==
  /\ Writes(w, "hold") /\ writer[w].hold # <<>>
  /\ WriterGoes(w, IF shelf[Head(writer[w].hold)] = None THEN "staged" ELSE "placed")
  /\ UNCHANGED <<shelfVars, decisionVars, skillRun, skillUsed>>

\* The temporary directory becomes the version's; one that is there already is not replaced:
\* the rename fails, and not with the error the code catches.
PublishPackage(w) ==
  LET v == Head(writer[w].hold) IN
  /\ Writes(w, "staged")
  /\ IF shelf[v] = None
     THEN shelf' = [shelf EXCEPT ![v] = v] /\ WriterGoes(w, "placed") /\ UNCHANGED skillRun
     ELSE WriterFails(w) /\ UNCHANGED shelf
  /\ UNCHANGED <<offered, checkedOut, decisionVars, skillUsed>>

InspectPackage(w) ==
  /\ Writes(w, "placed")
  /\ IF Sound(Head(writer[w].hold))
     THEN UNCHANGED skillRun /\
          writer' = [writer EXCEPT ![w] = [pc |-> IF w = "import" THEN "record" ELSE "hold",
                                           hold |-> IF w = "import" THEN @.hold ELSE Tail(@.hold)]]
     ELSE WriterFails(w)
  /\ UNCHANGED <<shelfVars, decisionVars, skillUsed>>

(***************************************************************************)
(* An import request: preflight, import_skill, import_user.                *)
(***************************************************************************)
PreviewSkill ==
  /\ Writes("import", "idle") /\ skillUsed.imports < MaxImports
  /\ skillUsed' = [skillUsed EXCEPT !.imports = @ + 1] /\ seen' = seen \cup {ReadSource}
  /\ writer' = [writer EXCEPT !["import"] = [pc |-> "previewed", hold |-> <<ReadSource>>]]
  /\ UNCHANGED <<shelfVars, installed, pinned, skillRun>>

\* Fault: the second reading of the source is not compared with the preview.
ReadUnreviewed ==
  /\ Writes("import", "previewed")
  /\ writer' = [writer EXCEPT !["import"] = [pc |-> "hold", hold |-> <<ReadSource>>]]
  /\ UNCHANGED <<shelfVars, decisionVars, skillRun, skillUsed>>

ReadImport ==
  /\ Writes("import", "previewed")
  /\ IF ReadSource = Head(writer["import"].hold) THEN WriterGoes("import", "hold") /\ UNCHANGED skillRun
                                              ELSE WriterFails("import")
  /\ UNCHANGED <<shelfVars, decisionVars, skillUsed>>

RecordInstallation ==
  /\ Writes("import", "record") /\ installed' = installed \cup {Head(writer["import"].hold)}
  /\ writer' = [writer EXCEPT !["import"] = NoWork]
  /\ UNCHANGED <<shelfVars, seen, pinned, skillRun, skillUsed>>

\* Into the project: install_project holds the Workspace and never replaces a Skill.
InstallInProject ==
  /\ Writes("import", "hold") /\ skillRun.pc # "started"
  /\ checkedOut' = IF checkedOut = None THEN Head(writer["import"].hold) ELSE checkedOut
  /\ writer' = [writer EXCEPT !["import"] = NoWork]
  /\ UNCHANGED <<shelf, offered, decisionVars, skillRun, skillUsed>>

\* configure: the catalog must be available with what is to be enabled.
ConfigureSkills ==
  /\ skillUsed.events < MaxSkillEvents /\ skillUsed' = [skillUsed EXCEPT !.events = @ + 1]
  /\ pinned' \in {None} \cup {v \in installed : Sound(v)}
  /\ UNCHANGED <<shelfVars, seen, installed, writer, skillRun>>

(***************************************************************************)
(* A Run: _freeze_skills, restore, load_skill.                             *)
(***************************************************************************)
\* catalog: a pinned version is inspected, the project's is read where it is.
SkillsNow == [o \in Origins |-> IF o = "user" THEN pinned ELSE checkedOut]

MayRunSkills(from) ==
  /\ skillRun.pc \in from /\ skillUsed.runs < MaxSkillRuns
  /\ skillUsed' = [skillUsed EXCEPT !.runs = @ + 1]

FreezeSkills ==
  /\ MayRunSkills({"idle", "ended"}) /\ pinned \in {None} \cup {v \in SkillVersions : Sound(v)}
  /\ skillRun' = [NoSkillRun EXCEPT !.pc = "freezing", !.snapshot = SkillsNow]
  /\ writer' = [writer EXCEPT !["run"] = [pc |-> "hold", hold |->
       SelectSeq(<<SkillsNow["project"], SkillsNow["user"]>>, LAMBDA v : v # None)]]
  /\ UNCHANGED <<shelfVars, decisionVars>>

\* A Continue has the snapshot of the Run that it continues.
ContinueWithSkills ==
  /\ MayRunSkills({"ended"}) /\ skillRun' = [skillRun EXCEPT !.pc = "admitted"]
  /\ UNCHANGED <<shelfVars, decisionVars, writer>>

AdmitWithSkills ==
  /\ skillRun.pc = "freezing" /\ Writes("run", "hold") /\ writer["run"].hold = <<>>
  /\ skillRun' = [skillRun EXCEPT !.pc = "admitted"] /\ writer' = [writer EXCEPT !["run"] = NoWork]
  /\ UNCHANGED <<shelfVars, decisionVars, skillUsed>>

\* Every version of the snapshot is inspected again; the Run keeps the bytes it read.
RestoreSkills ==
  /\ skillRun.pc = "admitted"
  /\ skillRun' = IF \A o \in Origins : skillRun.snapshot[o] # None => Sound(skillRun.snapshot[o])
       THEN [skillRun EXCEPT !.pc = "started", !.catalog =
              [o \in Origins |-> IF skillRun.snapshot[o] = None THEN None
                                                                ELSE shelf[skillRun.snapshot[o]]]]
       ELSE [skillRun EXCEPT !.pc = "ended"]
  /\ UNCHANGED <<shelfVars, decisionVars, writer, skillUsed>>

EndSkillRun ==
  /\ skillRun.pc = "started" /\ skillRun' = [skillRun EXCEPT !.pc = "ended", !.catalog = NoSkills]
  /\ UNCHANGED <<shelfVars, decisionVars, writer, skillUsed>>

\* What is on disk and in the log stays; an admitted Run is over.
CrashSkills ==
  /\ skillUsed.events < MaxSkillEvents /\ skillUsed' = [skillUsed EXCEPT !.events = @ + 1]
  /\ writer' = [w \in Writers |-> NoWork] 
  /\ skillRun' = IF skillRun.pc \in {"admitted", "started"}
                 THEN [skillRun EXCEPT !.pc = "ended", !.catalog = NoSkills]
                 ELSE IF skillRun.pc = "freezing" THEN NoSkillRun ELSE skillRun
  /\ UNCHANGED <<shelfVars, decisionVars>>

SkillNext ==
  \/ TouchFiles \/ PreviewSkill \/ ReadImport \/ RecordInstallation \/ InstallInProject
  \/ \E w \in Writers : StagePackage(w) \/ PublishPackage(w) \/ InspectPackage(w)
  \/ ConfigureSkills \/ FreezeSkills \/ AdmitWithSkills \/ ContinueWithSkills
  \/ RestoreSkills \/ EndSkillRun \/ CrashSkills

\* What a Run works with is, byte for byte, what its admission froze; what of that is the
\* user's own was pinned from an installation, and what is installed was shown to the user
\* first: whatever was edited, imported, reconfigured or damaged between those moments
\* ("Skill changed since preview; review it again", "Skill snapshot integrity check failed").
SkillsAreAsReviewed ==
  /\ installed \subseteq seen /\ pinned \in installed \cup {None}
  /\ skillRun.snapshot["user"] \in installed \cup {None}
  /\ skillRun.pc = "started" => skillRun.catalog = skillRun.snapshot
=============================================================================
