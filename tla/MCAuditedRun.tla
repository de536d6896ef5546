---------------------------- MODULE MCAuditedRun ----------------------------
(* AuditedRun on a small instance: each way a call can be right or wrong *)
EXTENDS AuditedRun, TLC

NoArgv == [program |-> "", bare |-> FALSE, words |-> <<>>]

Arguments(given) ==
  [text |-> TRUE, object |-> TRUE, huge |-> FALSE, short |-> TRUE, given |-> given, argv |-> NoArgv]

Call(id, name, arguments) ==
  [id |-> id, name |-> name, arguments |-> arguments,
   object |-> TRUE, type |-> "function", function |-> TRUE]

Path == Value("string", 1)

Read(start, end) ==
  Call("i", "read_file", Arguments([path |-> Path, start_line |-> start, end_line |-> end]))

Edit(old, new) ==
  Call("i", "edit_file", Arguments([path |-> Path, old_text |-> Value("string", old),
                                    new_text |-> Value("string", new)]))

Command(id, given, program, words, short) ==
  Call(id, "run_command",
       [Arguments(given) EXCEPT !.short = short,
          !.argv = [program |-> program, bare |-> TRUE, words |-> words]])

Argv(n, items) == [argv |-> [Value("array", n) EXCEPT !.items = items]]

Pytest == Command("i", Argv(1, "words"), "pytest", <<>>, TRUE)

Status == Command("j", Argv(2, "words"), "git", <<"status">>, TRUE)

MCCalls ==
  {Read(Value("integer", 2), Null), Read(Value("integer", 2), Value("integer", 1)),
   Read(Value("boolean", 1), Null), Edit(2, 1), Edit(2, 2), Edit(0, 1),
   Pytest, Status, [Pytest EXCEPT !.name = "unheard_of"],
   Command("i", Argv(1, "words"), "pytest", <<>>, FALSE),
   Command("i", Argv(1, "others"), "pytest", <<>>, TRUE),
   Command("i", Argv(0, "words"), "", <<>>, TRUE),
   Command("i", Argv(3, "words"), "git", <<"push", "-f">>, TRUE),
   Command("i", Argv(2, "words") @@ [timeout_seconds |-> Value("integer", 121)],
           "python", <<"-m", "pytest">>, TRUE),
   Call("i", "list_dir", Arguments(<<>>)), Call("i", "grep", Arguments(<<>>)),
   [Pytest EXCEPT !.arguments.huge = TRUE],
   [Pytest EXCEPT !.name = "unheard_of", !.arguments.huge = TRUE], [Pytest EXCEPT !.arguments.object = FALSE]}

Body(calls, content, finish) ==
  [json |-> TRUE, choices |-> 1, role |-> "assistant", content |-> content,
   calls |-> calls, finish |-> finish]

MCBodies ==
  {Body(<<>>, "text", finish) : finish \in {"stop", "length", "content_filter", "other", "bad"}}
    \cup {Body(<<>>, content, "other") : content \in {"null", "bad"}}
    \cup {Body(<<call>>, "null", "stop") : call \in MCCalls}
    \cup {Body(calls, "null", "stop") : calls \in {<<Pytest, Status>>, <<Pytest, Pytest>>, <<Status, Edit(2, 1)>>}}
    \cup {Body(<<[Pytest EXCEPT !.id = ""]>>, "null", "stop"),
          [Body(<<>>, "text", "stop") EXCEPT !.choices = 2]}

MCRetryAfters == {[number |-> TRUE, wait |-> n] : n \in {-1, 100}}
=============================================================================
