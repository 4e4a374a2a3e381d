----------------------------- MODULE MCProcess -----------------------------
(***************************************************************************)
(* A small instance of Process.                                            *)
(***************************************************************************)
EXTENDS Process, TLC

Valid == [driver |-> "sqlite", base_url |-> "http", model |-> "m", interval |-> 2]

\* A day; nine days, which wrap to less than nothing; a week.  A jitter below and
\* above the interval, and one without effect.  Then files that Load refuses.
MCFiles ==
  { [raw_content_retention |-> [n |-> 1, unit |-> "d"], jitter |-> 1] @@ Valid,
    [raw_content_retention |-> [n |-> 9, unit |-> "d"], interval |-> 1, jitter |-> 2] @@ Valid,
    [raw_content_retention |-> [n |-> 1, unit |-> "w"], interval |-> 0, jitter |-> -1] @@ Valid,
    [raw_content_retention |-> [n |-> 3, unit |-> "other"]] @@ Valid,
    [raw_content_retention |-> [n |-> 40, unit |-> "go"]] @@ Valid,
    [typo |-> 1] @@ Valid,
    << >> }

\* The retention has no variable: the first of them changes nothing.
MCEnvs == { [raw_content_retention |-> Forever], [max_concurrent |-> 0] }

File(base, name, flags) ==
  [base |-> base, name |-> name,
   yaml |-> "text" \notin flags, hidden |-> "hidden" \in flags, decodes |-> "garbled" \notin flags,
   sound |-> "broken" \notin flags, critical |-> "critical" \in flags, renders |-> "fails" \notin flags]

MCBuiltin == <<File("classify", "classify", {"critical"})>>

Mine == File("mine", "classify", {})

MCPromptDirs ==
  {[kind |-> k] : k \in {"unset", "missing", "notDir"}} \cup
  [kind : {"dir"},
   files : { <<File("classify", "", {"broken"})>>,
             <<File("a", "classify", {"fails"}), File("z", "classify", {"broken"})>>,
             <<File("a", "classify", {"hidden", "garbled"}), Mine, File("z", "other", {"critical"})>>,
             <<Mine, File("z", "classify", {"broken", "critical"})>>,
             <<File("a", "", {"garbled"}), Mine>>,
             <<File("readme", "", {"text", "garbled"}), File("other", "", {"broken"})>> }]
=============================================================================
