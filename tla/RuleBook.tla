------------------------------ MODULE RuleBook ------------------------------
(***************************************************************************)
(* What the caches of the rule loader and of the preset service amount to: *)
(* no caches at all, but a process that answers a question about the rule  *)
(* files from the files once, and every later time as it did then.         *)
(***************************************************************************)
CONSTANTS
  Says(_, _),   \* Says(files, question): what the files say, or Nothing
  Nothing

VARIABLES
  files,
  answers   \* the pairs <<question, answer>> this process has given

Init == answers = {}

(* The files change as they like.                                          *)
Edit == UNCHANGED answers

Answer ==
  /\ UNCHANGED files
  /\ answers \subseteq answers'
  /\ \A a \in answers' \ answers :
       /\ a[2] = Says(files, a[1]) /\ a[2] # Nothing
       /\ \A b \in answers' : b[1] = a[1] => b = a

Restart == answers' = {} /\ UNCHANGED files

Next == Edit \/ Answer \/ Restart

Spec == Init /\ [][Next]_<<files, answers>>
=============================================================================
