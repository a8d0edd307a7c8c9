---------------------------- MODULE MCFieldEditor ----------------------------
EXTENDS FieldEditor

\* A lone minus reads like an empty input and is the harder one to keep.
Typed == {Text("minus", 0), Text("broken", 0), Text("number", 0),
          Text("number", 10), Text("partial", 8 * One)}
Scalars == Typed \cup {Empty, Text("boolean", 1), Text("word", 5)}
List(items, open) == [items |-> items, open |-> open]
Lists == {List(<<>>, FALSE), List(<<Text("number", 8 * One)>>, FALSE), List(<<Text("number", 8 * One)>>, TRUE),
          List(<<Text("number", 24 * One)>>, FALSE), List(<<Text("broken", 0), Text("number", 10)>>, FALSE),
          List(<<Text("boolean", 1), Text("boolean", 0)>>, FALSE)}

\* Fields with a setting still missing, as the service returns them or as a JSON
\* text left them, and with numbers beyond an integer column; strings that read as
\* numbers and empty ones, as a structure or another caller may bring them.
Others == {[defaultSpec("randomWalk") EXCEPT !.min = NaN, !.start = One],
           [defaultSpec("randomWalk") EXCEPT !.max = 101 * One, !.integer = TRUE],
           [defaultSpec("dailyProfile") EXCEPT !.noise = Undefined, !.integer = TRUE],
           [defaultSpec("sequence") EXCEPT !.start = Null, !.padTo = 5 * One],
           [defaultSpec("constant") EXCEPT !.value = Scalar("number", 101 * One)],
           [defaultSpec("constant") EXCEPT !.value = Scalar("string", -10)],
           [defaultSpec("enum") EXCEPT !.values = <<Scalar("string", -10), Scalar("string", 0)>>]}
=============================================================================
