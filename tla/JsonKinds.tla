------------------------------ MODULE JsonKinds ------------------------------
(***************************************************************************)
(* What the tables of WorldTypes, WorldModels and SnapshotGuard tell apart *)
(* about one value of a JSON object: its kind.  A literal of a union type  *)
(* is its own kind ("LIVE"); every other string is "string".  "object" and *)
(* "list" are well formed, of the shape the field asks for: their own      *)
(* fields are judged in the row of their own interface.  "other" is an     *)
(* object or a list of any other content, and "beyond" a finite number     *)
(* outside the range the field documents (a latitude of 91).               *)
(***************************************************************************)
EXTENDS TLC

Finite   == {"finite", "beyond"}
Bool     == {"true", "false"}
Text     == {"string"}
Object   == {"object"}
List     == {"list", "empty"}
BaseKinds == Finite \cup Bool \cup Text \cup Object \cup List
               \cup {"infinite", "null", "absent", "other"}

Nullable(kinds) == kinds \cup {"null"}
Optional(kinds) == kinds \cup {"absent"}
Each(kinds, fields) == [f \in fields |-> kinds]

\* A literal is a string wherever any string will do.
Conforms(kind, kinds) ==
  \/ kind \in kinds
  \/ kind \notin BaseKinds /\ "string" \in kinds
==============================================================================
