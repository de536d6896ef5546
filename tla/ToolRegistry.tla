---------------------------- MODULE ToolRegistry ----------------------------
(***************************************************************************)
(* tools/registry.py: the tools' parameters, the check of a call's         *)
(* arguments against them, and one call from its name to its result.       *)
(*                                                                         *)
(* An argument value is a record of its JSON type, its size (an integer's  *)
(* value, a string's or an array's length) and, for an array, its items:   *)
(* words, blank words among them, or other things than strings.            *)
(***************************************************************************)
EXTENDS Integers, Sequences

CONSTANT Handlers    \* the tools that have a handler

Value(type, n) == [type |-> type, n |-> n, items |-> "words"]
Null == Value("null", 0)

Endless == 1000 * 1000    \* no maximum
Needed == Value("none", 0)    \* a parameter without default

Parameter(types, min, max, default) ==
  [types |-> types, min |-> min, max |-> max, default |-> default]

Text(min, default) == Parameter({"string"}, min, Endless, default)
Number(min, max, default) == Parameter({"integer"}, min, max, Value("integer", default))

(* _TOOL_SCHEMAS; the required parameters are those without default *)
Parameters ==
  [list_dir |->
     [path |-> Text(1, Value("string", 1)), max_depth |-> Number(0, 5, 2),
      max_entries |-> Number(1, 500, 200)],
   read_file |->
     [path |-> Text(1, Needed), start_line |-> Number(1, Endless, 1),
      end_line |-> Parameter({"integer", "null"}, 1, Endless, Null)],
   grep |->
     [query |-> Text(1, Needed), path |-> Text(1, Value("string", 1)),
      file_pattern |-> Parameter({"string", "null"}, 1, Endless, Null),
      max_results |-> Number(1, 200, 100)],
   write_file |-> [path |-> Text(1, Needed), content |-> Text(0, Needed)],
   edit_file |->
     [path |-> Text(1, Needed), old_text |-> Text(1, Needed), new_text |-> Text(0, Needed)],
   run_command |->
     [argv |-> Parameter({"array"}, 1, 64, Needed), timeout_seconds |-> Number(1, 120, 30)]]

Required(tool) == {p \in DOMAIN Parameters[tool] : Parameters[tool][p].default = Needed}

(* _matches: a boolean is no integer *)
Matches(value, parameter) ==
  /\ value.type \in parameter.types
  /\ value.type # "null" => value.n \in parameter.min..parameter.max
  /\ value.items = "words"

-----------------------------------------------------------------------------
(* _validated_arguments *)

Normalized(call) ==
  [p \in DOMAIN Parameters[call.name] |->
     IF p \in DOMAIN call.arguments.given
     THEN call.arguments.given[p]
     ELSE Parameters[call.name][p].default]

(* The two checks that relate one argument to another *)
Contradictory(tool, values) ==
  \/ /\ tool = "read_file"
     /\ values.end_line.type = "integer"
     /\ values.end_line.n < values.start_line.n
  \/ tool = "edit_file" /\ values.old_text = values.new_text

(* Bug: the range of lines is not looked at *)
ValidArguments_AnyRange(call) ==
  /\ call.arguments.object
  /\ Required(call.name) \subseteq DOMAIN call.arguments.given
  /\ DOMAIN call.arguments.given \subseteq DOMAIN Parameters[call.name]
  /\ \A p \in DOMAIN Parameters[call.name] :
       Matches(Normalized(call)[p], Parameters[call.name][p])

ValidArguments(call) ==
  /\ call.arguments.object
  /\ Required(call.name) \subseteq DOMAIN call.arguments.given
  /\ DOMAIN call.arguments.given \subseteq DOMAIN Parameters[call.name]
  /\ \A p \in DOMAIN Parameters[call.name] :
       Matches(Normalized(call)[p], Parameters[call.name][p])
  /\ ~Contradictory(call.name, Normalized(call))

-----------------------------------------------------------------------------
Failure(call, code) ==
  [id |-> call.id, name |-> call.name, ok |-> FALSE, code |-> code, exit |-> "none"]

(* _execute up to the handler: the code of a refusal, or "" *)
Refusal(call) ==
  CASE call.name \notin DOMAIN Parameters -> "UNKNOWN_TOOL"
    [] call.name \in DOMAIN Parameters /\ ~ValidArguments(call) -> "INVALID_ARGUMENTS"
    [] call.name \in DOMAIN Parameters \ Handlers /\ ValidArguments(call) -> "TOOL_NOT_AVAILABLE"
    [] OTHER -> ""

(* and after it: an exception, no result or one that cannot be sent is a    *)
(* failure of the call; a result always carries the call's own id and name  *)
Repaired(call, handled) ==
  IF handled.broken
  THEN Failure(call, "TOOL_EXECUTION_ERROR")
  ELSE [handled.result EXCEPT !.id = call.id, !.name = call.name]

(* _validate_call_ids *)
DistinctIds(calls) ==
  /\ \A k \in DOMAIN calls : calls[k].id # ""
  /\ \A j, k \in DOMAIN calls : calls[j].id = calls[k].id => j = k
=============================================================================
