------------------------------ MODULE Quality ------------------------------
(***************************************************************************)
(* app/services/quality.py: the advisory report on a submission.  Texts    *)
(* are told apart by what the report asks of them.                         *)
(***************************************************************************)
EXTENDS Integers, FiniteSets

CONSTANTS
    NoTask,         \* the NULL of an item's task_id
    NoKey           \* the NULL of an item's storage_key

\* A note is absent, shorter than OBSERVATION_MIN_CHARS, or at least as long.
NoteSize == {"none", "short", "observation"}

\* Whether the normalized summary has SUMMARY_MIN_CHARS, and one of GENERIC_PHRASES.
Summary == [long : BOOLEAN, generic : BOOLEAN]

HasContent(item) == item.key # NoKey \/ item.link \/ item.note # "none"
CoveredTasks(items) == {item.task : item \in items} \ {NoTask}

\* The codes of the checks that are passed, of four.
PassedChecks(summary, items, required) ==
    {code \in {"required_task_coverage", "evidence_content", "summary_specificity",
               "concrete_observation"} :
       CASE code = "required_task_coverage" -> required \subseteq CoveredTasks(items)
         [] code = "evidence_content"       -> \A item \in items : HasContent(item)
         [] code = "summary_specificity"    -> summary.long /\ ~summary.generic
         [] code = "concrete_observation"   -> \E item \in items : item.note = "observation"}

\* build_submission_quality_check, on the submission's status, its content and the locked tasks.
Report(status, content, required) ==
    LET passed == PassedChecks(content.summary, content.items, required)
    IN  [checks |-> passed,
         score  |-> 25 * Cardinality(passed),
         status |-> IF status # "submitted" THEN "already_reviewed"
                    ELSE IF Cardinality(passed) < 4 THEN "needs_attention" ELSE "ready_for_review"]
=============================================================================
