------------------------------- MODULE IrcMsg -------------------------------
(***************************************************************************)
(* Reading and writing IRC messages: the parser of ircmsg/ircmsg.cpp, the   *)
(* table that pushircmsg of client/irc/lua.cpp makes of its result, and     *)
(* ircc/utils/send.lua, which writes messages.                              *)
(*                                                                          *)
(* A text is a sequence of characters.  The characters the code tells apart *)
(* are " ", ":", "@", ";", "=", "\\" and the ones it escapes; LF stands for *)
(* the characters NUL, CR and LF, which never are part of a received line.  *)
(***************************************************************************)
EXTENDS Naturals, Sequences, SequencesExt, FiniteSets

Sp == " "
LF == "LF"

From(t, i) == SubSeq(t, i, Len(t))

\* the first position in t of a character in cs, or the one after the end
Find(t, cs) ==
    LET at == {i \in DOMAIN t : t[i] \in cs}
    IN IF at = {} THEN Len(t) + 1 ELSE CHOOSE i \in at : \A j \in at : i <= j

-----------------------------------------------------------------------------
(* class parser                                                             *)

trim(t) ==
    LET at == {i \in DOMAIN t : t[i] # Sp}
    IN IF at = {} THEN <<>> ELSE From(t, CHOOSE i \in at : \A j \in at : i <= j)

word(t) == SubSeq(t, 1, Find(t, {Sp}) - 1)

\* what word leaves to be parsed
AfterWord(t) == trim(From(t, Find(t, {Sp}) + 1))

match(t, c) == t # <<>> /\ Head(t) = c

\* strsep until the string is used up: n separators make n + 1 fields
RECURSIVE strsep(_, _)
strsep(t, c) ==
    LET i == Find(t, {c})
    IN IF i > Len(t) THEN <<t>> ELSE <<SubSeq(t, 1, i - 1)>> \o strsep(From(t, i + 1), c)

RECURSIVE unescape_tag_value(_)
unescape_tag_value(v) ==
    IF v = <<>> THEN <<>>
    ELSE IF Head(v) # "\\" THEN <<Head(v)>> \o unescape_tag_value(Tail(v))
    ELSE IF Len(v) = 1 THEN <<>>
    ELSE <<CASE v[2] = ":" -> ";"
             [] v[2] = "s" -> Sp
             [] v[2] \in {"n", "r"} -> LF
             [] OTHER -> v[2]>> \o unescape_tag_value(From(v, 3))

\* a field of the tags; a tag without "=" has the empty value
Tag(field) ==
    LET i == Find(field, {"="})
    IN [key |-> SubSeq(field, 1, i - 1),
        val |-> unescape_tag_value(From(field, i + 1))]

parse_irc_tags(t) ==
    LET fields == strsep(t, ";") IN [i \in DOMAIN fields |-> Tag(fields[i])]

MissingTag(tags) == \E i \in DOMAIN tags : tags[i].key = <<>>

RECURSIVE Args(_)
Args(t) ==
    IF t = <<>> THEN <<>>
    ELSE IF match(t, ":") THEN <<Tail(t)>>
    ELSE <<word(t)>> \o Args(AfterWord(t))

\* the outcome is a message or one of the two errors
parse_irc_message(msg) ==
    LET start  == trim(msg)
        tagged == match(start, "@")
        tags   == IF tagged THEN parse_irc_tags(word(Tail(start))) ELSE <<>>
        t      == IF tagged THEN AfterWord(Tail(start)) ELSE start
        sourced == match(t, ":")
        u      == IF sourced THEN AfterWord(Tail(t)) ELSE t
    IN IF MissingTag(tags) THEN [error |-> "MISSING_TAG"]
       ELSE IF word(u) = <<>> THEN [error |-> "MISSING_COMMAND"]
       ELSE [error |-> "none", tags |-> tags,
             source |-> IF sourced THEN word(Tail(t)) ELSE <<>>,
             command |-> word(u), args |-> Args(AfterWord(u))]

\* pushtags: of tags with the same key the last one stays
pushtags(tags) ==
    [k \in {tags[i].key : i \in DOMAIN tags} |->
       LET same == {i \in DOMAIN tags : tags[i].key = k}
       IN tags[CHOOSE i \in same : \A j \in same : j <= i].val]

\* A command of digits becomes an integer, which has no zeros in front.
\* Signs and numbers past 64 bits are not modelled.
Command(c) ==
    IF ~(Range(c) \subseteq {"0", "1"}) THEN c
    ELSE IF Range(c) = {"0"} THEN <<"0">> ELSE From(c, Find(c, {"1"}))

\* the Lua table; an empty source is left out, which is the same to a reader
pushircmsg(m) ==
    [tags |-> pushtags(m.tags), source |-> m.source,
     command |-> Command(m.command), args |-> m.args]

-----------------------------------------------------------------------------
(* send.lua                                                                 *)

\* what string.find(part, '^[^ :][^ ]*$') accepts
Plain(part) == part # <<>> /\ Head(part) # ":" /\ Sp \notin Range(part)

\* mutant: a leading colon is not looked for
SendableNoColon(args) ==
    \A i \in DOMAIN args : LF \notin Range(args[i])

\* send raises for a prohibited character, and for an argument that only the
\* last may be
Sendable(args) ==
    \A i \in DOMAIN args :
       LF \notin Range(args[i]) /\ (Plain(args[i]) \/ i = Len(args))

\* the line without the CR LF at its end
send(cmd, args) ==
    cmd \o FlattenSeq([i \in DOMAIN args |->
                         <<Sp>> \o (IF Plain(args[i]) THEN <<>> ELSE <<":">>) \o args[i]])

-----------------------------------------------------------------------------
(* The protocol's own way to write a message                                *)

EscapeTag(v) ==
    FlattenSeq([i \in DOMAIN v |-> CASE v[i] = ";"  -> <<"\\", ":">>
                                     [] v[i] = Sp   -> <<"\\", "s">>
                                     [] v[i] = LF   -> <<"\\", "n">>
                                     [] v[i] = "\\" -> <<"\\", "\\">>
                                     [] OTHER -> <<v[i]>>])

Format(msg) ==
    LET keys == SetToSeq(DOMAIN msg.tags) IN
    (IF keys = <<>> THEN <<>>
     ELSE <<"@">>
          \o FlattenSeq([i \in DOMAIN keys |->
                (IF i = 1 THEN <<>> ELSE <<";">>)
                \o keys[i] \o <<"=">> \o EscapeTag(msg.tags[keys[i]])])
          \o <<Sp>>)
    \o <<":">> \o msg.source \o <<Sp>> \o send(msg.command, msg.args)

-----------------------------------------------------------------------------
\* What Lua gets of a line is a message: every argument but the last could be
\* sent as it is, and writing the message as the protocol says and reading it
\* again gives the same table, tags with escapes included
\* (ircmsg.cpp:85-178, irc/lua.cpp:276-317).
ReadsBack(text) ==
    LET m == parse_irc_message(text) IN
    m.error = "none" =>
       LET seen  == pushircmsg(m)
           again == parse_irc_message(Format(seen))
       IN Sendable(seen.args) /\ again.error = "none" /\ pushircmsg(again) = seen

\* What send writes is read back as the same command and arguments
\* (send.lua:18-52): an argument never becomes two, or none.
SentIsRead(cmd, args) ==
    Sendable(args) =>
       parse_irc_message(send(cmd, args)) =
          [error |-> "none", tags |-> <<>>, source |-> <<>>, command |-> cmd, args |-> args]

=============================================================================
