------------------------------ MODULE Prompts ------------------------------
(***************************************************************************)
(* The prompt manager (internal/prompt): blueprints are read once, first   *)
(* the embedded ones, then those of the override directory, each in the    *)
(* order of the walk.                                                      *)
(*                                                                         *)
(* A file is what parse tells apart: yaml, hidden, decodes; its name and   *)
(* base (the file's name without suffix); critical; sound when templates   *)
(* and schema compile; renders when Execute succeeds with the data the     *)
(* classificator passes, which nothing checks before.                      *)
(***************************************************************************)
EXTENDS Integers, Sequences

CONSTANT Builtin \* the embedded files

PromptFile ==
  [yaml : BOOLEAN, hidden : BOOLEAN, decodes : BOOLEAN, sound : BOOLEAN, critical : BOOLEAN,
   renders : BOOLEAN, name : STRING, base : STRING]

ASSUME PromptsAssumption == Builtin \in Seq(PromptFile)

NameOf(f) == IF f.name = "" THEN f.base ELSE f.name

\* A blueprint replaces the one of its name.
Put(blueprints, f) ==
  [name \in DOMAIN blueprints \cup {NameOf(f)} |-> IF name = NameOf(f) THEN f ELSE blueprints[name]]

Manager(ok, blueprints) == [ok |-> ok, blueprints |-> blueprints]

\* Faulty variant: an unsound blueprint is stored before its templates are compiled.
ParseStoresFirst(m, f) ==
  IF ~m.ok \/ ~f.decodes \/ (~f.sound /\ f.critical) THEN Manager(FALSE, m.blueprints)
  ELSE Manager(TRUE, Put(m.blueprints, f))

\* A file that does not decode, or is critical and unsound, ends the walk with
\* an error; one that is only unsound is skipped; a sound one replaces what had
\* its name.
Parse(m, f) ==
  IF ~m.ok \/ ~f.decodes \/ (~f.sound /\ f.critical) THEN Manager(FALSE, m.blueprints)
  ELSE IF f.sound THEN Manager(TRUE, Put(m.blueprints, f))
  ELSE m

\* The callback of the walks.  It passes over hidden files only in the directory.
Visit(m, f, embedded) == IF f.yaml /\ (embedded \/ ~f.hidden) THEN Parse(m, f) ELSE m

\* The manager after the files of a walk; after[k] is the one after k of them.
Walk(m, files, embedded) ==
  LET after[k \in 0..Len(files)] == IF k = 0 THEN m ELSE Visit(after[k - 1], files[k], embedded)
  IN after[Len(files)]

LoadFS(m) == Walk(m, Builtin, TRUE)

\* The override directory: a missing one is not an error, a file in its place is.
LoadDir(m, dir) ==
  CASE dir.kind = "unset" \/ dir.kind = "missing" -> m
    [] dir.kind = "notDir" -> Manager(FALSE, m.blueprints)
    [] dir.kind = "dir" -> Walk(m, dir.files, FALSE)

NewManager(dir) ==
  LET embedded == LoadFS(Manager(TRUE, << >>))
  IN IF embedded.ok THEN LoadDir(embedded, dir) ELSE embedded

\* Execute renders both templates of the named blueprint.
Executes(blueprints, name) == name \in DOMAIN blueprints /\ blueprints[name].renders

=============================================================================
