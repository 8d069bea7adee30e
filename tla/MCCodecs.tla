------------------------------ MODULE MCCodecs ------------------------------
(***************************************************************************)
(* The conversions on all small inputs.  codec tells which of them a        *)
(* behaviour is about; the variables of the others stay as they are.        *)
(*                                                                          *)
(* A line, arguments or a Lua value is grown one symbol at a time, from one *)
(* of a few beginnings that bring the rare cases within reach; left is the  *)
(* number of symbols it may still get.  Base64 gets all bodies over three   *)
(* bytes and all texts of one command, and Keyboard one key of each kind.   *)
(***************************************************************************)
EXTENDS IrcMsg, Toml, Base64, Keyboard

VARIABLES codec, input, left

inputVars == <<input, left>>
vars == <<codec, inputVars, base64Vars, keyboardVars>>

CONSTANTS LineLength, ArgsLength, TomlLength, BodyLength, TextLength

Letters == {Sp, ":", "@", ";", "=", "\\", "s", "0", "1"}
TableKeys == {Num(1), Num(2), Str("a"), Str("1"), <<"boolean", 1>>}
Leaves == {<<"boolean", 1>>, <<"number", 5>>, Str("a"), <<"function", 0>>}
AllBodies == BoundedSeq({0, 103, 255}, BodyLength)
AllTexts == {<<>>} \cup {<<text>> : text \in BoundedSeq({0, 37, 63, Pad, Junk}, TextLength)}
SomeKeys == {97, Esc, Up, KEY_MOUSE, 195, 169, start_paste, end_paste, focus_gained, focus_lost}

Start(c, i, n) ==
    /\ codec = c /\ input = i /\ left = n
    /\ Base64Init /\ sent = <<>> /\ sender = "server" /\ KeyboardInit

Init ==
    \/ Start("line", <<>>, LineLength)
    \/ Start("line", <<"@", "s", "=">>, LineLength)
    \/ Start("line", <<":", "s", Sp, "1", Sp>>, LineLength)
    \/ Start("args", <<>>, ArgsLength)
    \/ \E v \in Leaves \cup {<<"table", <<>>>>} : Start("toml", v, TomlLength)
    \/ codec = "base64" /\ input = <<>> /\ left = 0 /\ Base64Init /\ KeyboardInit
    \/ Start("keys", <<>>, 0)

Grow(c, symbols) ==
    /\ codec = c /\ left > 0
    /\ left' = left - 1
    /\ \E x \in symbols : input' = Append(input, x)

\* a value goes into a new table
Wrap ==
    /\ codec = "toml" /\ left > 0
    /\ left' = left - 1
    /\ \E k \in TableKeys : input' = <<"table", [x \in {k} |-> input]>>

\* a table gets another entry
Add ==
    /\ codec = "toml" /\ left > 0 /\ IsTable(input)
    /\ left' = left - 1
    /\ \E k \in TableKeys \ DOMAIN input[2], v \in Leaves :
          input' = <<"table", [x \in DOMAIN input[2] \cup {k} |->
                                 IF x = k THEN v ELSE input[2][x]]>>

Next ==
    /\ UNCHANGED codec
    /\ \/ /\ \/ Grow("line", Letters)
             \/ Grow("args", {Sp, ":", "1", LF, "|"})
             \/ Wrap \/ Add
          /\ UNCHANGED <<base64Vars, keyboardVars>>
       \/ codec = "base64" /\ Base64Next /\ UNCHANGED <<inputVars, keyboardVars>>
       \/ codec = "keys" /\ KeyboardNext /\ UNCHANGED <<inputVars, base64Vars>>

Spec == Init /\ [][Next]_vars

-----------------------------------------------------------------------------
\* What Lua gets of a line is a message: every argument but the last could be
\* sent as it is, and writing the message as the protocol says and reading it
\* again gives the same table, tags with escapes included (ircmsg.cpp:85-178,
\* irc/lua.cpp:276-317).  What send writes is read back as the same command
\* and arguments, never one more or less (send.lua:18-52).
MessagesReadBack ==
    /\ codec = "line" => ReadsBack(input)
    /\ codec = "args" => SentIsRead(<<"1">>, strsep(input, "|"))

Orders == SetToSeqs(TableKeys)


=============================================================================
