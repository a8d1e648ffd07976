---------------------------- MODULE CelCondition ----------------------------
(***************************************************************************)
(* cel_condition of src/src/node/utils.rs: a boolean expression over a JSON *)
(* message.  An expression compares one value of the message, named by a    *)
(* path like Err.Timeout.Code or message.state, with a literal.             *)
(***************************************************************************)
EXTENDS SequencesExt

Scalar(v) == [kind |-> "scalar", value |-> v]
Object(fields) == [kind |-> "object", fields |-> fields]
Undefined == [kind |-> "undefined"]

\* "empty": no condition is configured.  "faulty": it does not compile, or is not a bool.
Always == [kind |-> "empty"]
Faulty == [kind |-> "faulty", path |-> <<>>]
Equals(path, literal) == [kind |-> "equals", path |-> path, literal |-> literal]

\* Defective variant: an object gives its fields in the place of the variable message.
ContextOfFields(message) ==
  IF message.kind = "object" THEN message ELSE Object([name \in {"message"} |-> message])

\* The variables of the expression: the message, and over it the fields of an object.
Context(message) ==
  LET fields == IF message.kind = "object" THEN DOMAIN message.fields ELSE {}
  IN  Object([name \in fields \cup {"message"} |->
               IF name \in fields THEN message.fields[name] ELSE message])

Member(value, name) ==
  IF value.kind = "object" /\ name \in DOMAIN value.fields THEN value.fields[name] ELSE Undefined

\* A path begins with a variable and goes on with keys.
Resolve(message, path) == FoldLeft(Member, Member(Context(message), Head(path)), Tail(path))

\* eval_condition: a bool, or the error of a variable or a key that does not exist.
EvalCondition(condition, message) ==
  LET value == Resolve(message, condition.path)
  IN  IF condition.kind = "faulty" \/ value = Undefined THEN "error"
      ELSE IF value = condition.literal THEN "true" ELSE "false"

\* Whether the node answers Ok with the message; false and an error are Err alike.
ConditionNode(condition, message) ==
  condition.kind = "empty" \/ EvalCondition(condition, message) = "true"

\* docs/nodes.md: the reference for ConditionNode.  The path leads into the message, with
\* or without the prefix message.
Means(condition, message) ==
  \/ condition.kind = "empty"
  \/ /\ condition.kind = "equals"
     /\ LET value == IF Head(condition.path) = "message" THEN message ELSE Member(message, Head(condition.path))
        IN  FoldLeft(Member, value, Tail(condition.path)) = condition.literal

\* The flattened fields hide the message from a path that begins with the prefix.
Hidden(condition, message) ==
  /\ condition.kind = "equals"
  /\ Head(condition.path) = "message"
  /\ message.kind = "object" /\ "message" \in DOMAIN message.fields

\* The same condition, read of the field named message.
MeansField(condition, message) ==
  FoldLeft(Member, message.fields["message"], Tail(condition.path)) = condition.literal
=============================================================================
