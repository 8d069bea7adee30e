------------------------------- MODULE Base64 -------------------------------
(***************************************************************************)
(* base64/base64.cpp and the way ircc/sasl/init.lua carries a SASL message  *)
(* over several AUTHENTICATE commands with it.                              *)
(*                                                                          *)
(* A byte is a number below 256.  A character of encoded text is its value  *)
(* below 64, Pad for '=' or Junk for any other character.  encode writes    *)
(* each character once, so it is a function of the input; decode skips      *)
(* characters, so its loop is the action Feed.                              *)
(***************************************************************************)
EXTENDS Integers, Sequences

CONSTANTS
    ChunkSize,         \* characters in an AUTHENTICATE command, 400 in the code
    Bodies,            \* what the client sends
    Scripts            \* the AUTHENTICATE commands of a server, with any text

Pad == 64
Junk == 65

\* Chunks are whole groups of four characters
ASSUME Base64Assumption ==
    /\ ChunkSize \in Nat \ {0} /\ ChunkSize % 4 = 0
    /\ Bodies \subseteq Seq(0..255)
    /\ Scripts \subseteq Seq(Seq(0..Junk))

VARIABLES
    body,              \* send_authenticate: its argument
    sender,            \* "sending", "done", or "server" for a script
    from,              \* its loop variable, the next character to send
    sent,              \* the AUTHENTICATE commands, in order
    got,               \* the number of them that wait_irc has returned
    mode,              \* "waiting", "decoding", "failed"
    pos,               \* decode: the number of characters it has read
    buffer,            \* its buffer
    out,               \* the bytes it has written
    chunks,            \* the receiving loop: bytes of the message so far
    payloads,          \* what the mechanism was resumed with
    taken              \* history: the positions of the characters decode used

base64Vars == <<body, sender, from, sent, got, mode, pos, buffer, out, chunks, payloads, taken>>

encoded_size(len) == ((len + 2) \div 3) * 4
decoded_size(len) == ((len + 3) \div 4) * 3

Shift6(n) == <<1, 64, 4096, 262144, 16777216>>[n + 1]
Shift8(n) == <<1, 256, 65536>>[n + 1]

-----------------------------------------------------------------------------
(* encode                                                                   *)

extract(word, n) == (word \div Shift6(n)) % 64

Group(b1, b2, b3) ==
    LET word == b1 * Shift8(2) + b2 * Shift8(1) + b3
    IN <<extract(word, 3), extract(word, 2), extract(word, 1), extract(word, 0)>>

\* one or two bytes are left
LastOne(b1) ==
    LET word == b1 * 1024
    IN <<extract(word, 2), extract(word, 1), Pad, Pad>>

LastTwo(b1, b2) ==
    LET word == b1 * 1024 + b2 * 4
    IN <<extract(word, 2), extract(word, 1), extract(word, 0), Pad>>

\* the four characters after the first n bytes
Quad(input, n) ==
    IF Len(input) >= n + 3 THEN Group(input[n + 1], input[n + 2], input[n + 3])
    ELSE IF Len(input) = n + 2 THEN LastTwo(input[n + 1], input[n + 2])
    ELSE LastOne(input[n + 1])

encode(input) ==
    [k \in 1..encoded_size(Len(input)) |->
        Quad(input, 3 * ((k - 1) \div 4))[1 + ((k - 1) % 4)]]

-----------------------------------------------------------------------------
(* send_authenticate                                                        *)

Plus == <<62>>         \* the message "+"

SendChunk ==
    LET text == encode(body)
        last == from + ChunkSize - 1
    IN /\ sender = "sending" /\ from <= Len(text)
       /\ sent' = Append(sent, SubSeq(text, from, IF last <= Len(text) THEN last ELSE Len(text)))
       /\ from' = from + ChunkSize
       /\ UNCHANGED <<body, sender, got, mode, pos, buffer, out, chunks, payloads, taken>>

\* mutant: no end after a last chunk that is full
SendEndEmptyOnly ==
    LET text == encode(body) IN
    /\ sender = "sending" /\ from > Len(text)
    /\ sent' = IF Len(text) = 0 THEN Append(sent, Plus) ELSE sent
    /\ sender' = "done"
    /\ UNCHANGED <<body, from, got, mode, pos, buffer, out, chunks, payloads, taken>>

SendEnd ==
    LET text == encode(body) IN
    /\ sender = "sending" /\ from > Len(text)
    /\ sent' = IF Len(text) % ChunkSize = 0 THEN Append(sent, Plus) ELSE sent
    /\ sender' = "done"
    /\ UNCHANGED <<body, from, got, mode, pos, buffer, out, chunks, payloads, taken>>

-----------------------------------------------------------------------------
(* decode                                                                   *)

chunk == sent[got]

\* the buffer begins with a 1, so that its size tells how much is in it
filled(word, n) == word \div Shift6(n) # 0

Bytes(word, n) == [k \in 1..n |-> (word \div Shift8(3 - k)) % 256]

\* the body of the loop
Feed ==
    LET c    == chunk[pos + 1]
        word == buffer * 64 + c
        full == c \in 0..63 /\ filled(word, 4)
    IN /\ mode = "decoding" /\ pos < Len(chunk)
       /\ pos' = pos + 1
       /\ buffer' = IF c \notin 0..63 THEN buffer ELSE IF full THEN 1 ELSE word
       /\ out' = IF full THEN out \o Bytes(word, 3) ELSE out
       /\ taken' = IF c \in 0..63 THEN Append(taken, pos + 1) ELSE taken
       /\ UNCHANGED <<body, sender, from, sent, got, mode, chunks, payloads>>

\* what follows the loop: nullptr, or what it adds to the bytes
Fails == filled(buffer, 1) /\ ~filled(buffer, 2)

Rest ==
    IF filled(buffer, 3) THEN Bytes(buffer * 64, 2)
    ELSE IF filled(buffer, 2) THEN Bytes(buffer * 4096, 1)
    ELSE <<>>

-----------------------------------------------------------------------------
(* The receiving loop of sasl                                               *)

Deliver(bytes) ==
    IF Len(sent'[got']) < ChunkSize
    THEN payloads' = Append(payloads, bytes) /\ chunks' = <<>>
    ELSE payloads' = payloads /\ chunks' = bytes

ReceivePlus ==
    /\ mode = "waiting" /\ got < Len(sent) /\ sent[got + 1] = Plus
    /\ got' = got + 1
    /\ UNCHANGED <<body, sender, from, sent, mode, pos, buffer, out, taken>>
    /\ Deliver(chunks)

ReceiveChunk ==
    /\ mode = "waiting" /\ got < Len(sent) /\ sent[got + 1] # Plus
    /\ got' = got + 1
    /\ mode' = "decoding" /\ pos' = 0 /\ buffer' = 1 /\ out' = <<>> /\ taken' = <<>>
    /\ UNCHANGED <<body, sender, from, sent, chunks, payloads>>

\* assert(mybase64.from_base64(chunk)) raises
Refuse ==
    /\ mode = "decoding" /\ pos = Len(chunk) /\ Fails
    /\ mode' = "failed"
    /\ UNCHANGED <<body, sender, from, sent, got, pos, buffer, out, chunks, payloads, taken>>

Decoded ==
    /\ mode = "decoding" /\ pos = Len(chunk) /\ ~Fails
    /\ mode' = "waiting"
    /\ UNCHANGED <<body, sender, from, sent, got, pos, buffer, out, taken>>
    /\ Deliver(chunks \o out \o Rest)

-----------------------------------------------------------------------------
Base64Init ==
    /\ \/ body \in Bodies /\ sender = "sending" /\ sent = <<>>
       \/ body = <<>> /\ sender = "server" /\ sent \in Scripts
    /\ from = 1 /\ got = 0 /\ mode = "waiting"
    /\ pos = 0 /\ buffer = 1 /\ out = <<>> /\ taken = <<>>
    /\ chunks = <<>> /\ payloads = <<>>

Base64Next ==
    SendChunk \/ SendEnd \/ ReceivePlus \/ ReceiveChunk \/ Feed \/ Refuse \/ Decoded

Base64Spec == Base64Init /\ [][Base64Next]_base64Vars

-----------------------------------------------------------------------------
(* Bits, most significant first                                             *)

BitsOf(s) ==
    [k \in 1..(6 * Len(s)) |-> (s[(k - 1) \div 6 + 1] \div <<32, 16, 8, 4, 2, 1>>[1 + ((k - 1) % 6)]) % 2]

\* the whole bytes of a sequence of bits
BytesOf(bits) ==
    [k \in 1..(Len(bits) \div 8) |->
       LET b(j) == bits[8 * (k - 1) + j]
       IN b(1) * 128 + b(2) * 64 + b(3) * 32 + b(4) * 16 + b(5) * 8 + b(6) * 4 + b(7) * 2 + b(8)]

\* used names the positions up to n of the characters of the alphabet, in order
Selects(used, text, n) ==
    /\ \A r \in DOMAIN used : used[r] \in 1..n /\ text[used[r]] \in 0..63
    /\ \A k \in 1..n : text[k] \in 0..63 => \E r \in DOMAIN used : used[r] = k
    /\ \A r, s \in DOMAIN used : r < s => used[r] < used[s]

\* Wherever a text ends, it decodes to the whole bytes of the bits of its
\* characters, others being skipped, and fails when there is one character more
\* than a multiple of four.  Nothing is written past the buffer that the
\* binding made (base64.cpp:71-110, base64.hpp:31-34, mybase64.cpp:28-48).
DecodesBits ==
    mode = "decoding" =>
       /\ Selects(taken, chunk, pos)
       /\ Fails <=> Len(taken) % 4 = 1
       /\ ~Fails => out \o Rest = BytesOf(BitsOf([r \in 1..Len(taken) |-> chunk[taken[r]]]))
       /\ Len(out \o Rest) <= decoded_size(pos)

\* A SASL message sent in chunks is delivered once, whole, to a receiver that
\* decodes chunk by chunk: also when it is empty and when its last chunk is
\* full (sasl/init.lua:25-34, 129-141).
SaslArrives ==
    sender # "server" =>
       /\ mode # "failed"
       /\ payloads \in {<<>>, <<body>>}
       /\ sender = "done" /\ got = Len(sent) /\ mode = "waiting" =>
             payloads = <<body>> /\ chunks = <<>>

\* What a text stands for is what decode returns, and what a SASL message was
\* is what the other side gets.
Base64Arrives == DecodesBits /\ SaslArrives

=============================================================================
