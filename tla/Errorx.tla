------------------------------- MODULE Errorx -------------------------------
(***************************************************************************)
(* The errorx package of m10: an error is its wrap chain, a sequence with  *)
(* the outermost layer first; <<>> is nil.  A layer is what errors.Is and  *)
(* errors.As look for: a cause with code "", or a code that was attached.  *)
(***************************************************************************)
EXTENDS Naturals, Sequences

Cause(kind) == <<[cause |-> kind, code |-> ""]>>

WithCode(err, code) ==
  IF err = <<>> THEN <<>> ELSE <<[cause |-> "codedError", code |-> code]>> \o err

(* errors.Is, and errors.As for *codedError. *)
IsCause(err, kind) == \E i \in DOMAIN err : err[i].cause = kind
CodesIn(err)       == {i \in DOMAIN err : err[i].code # ""}
OutermostCode(err) == err[CHOOSE i \in CodesIn(err) : \A j \in CodesIn(err) : i <= j].code

Code(err) == IF CodesIn(err) # {} THEN OutermostCode(err)
             ELSE IF err = <<>> THEN "" ELSE "INTERNAL"

HTTPStatus(err) == CASE Code(err) = "NOT_FOUND"  -> 404
                     [] Code(err) = "VALIDATION" -> 400
                     [] Code(err) = "CONFLICT"   -> 409
                     [] OTHER                    -> 500
=============================================================================
