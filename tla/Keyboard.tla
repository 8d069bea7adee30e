------------------------------ MODULE Keyboard ------------------------------
(***************************************************************************)
(* App::stdin_thread of client/app.cpp, which turns the keys that ncurses   *)
(* reads into calls of on_keyboard, on_mouse and on_paste.                  *)
(*                                                                          *)
(* Keys are numbers as getch returns them, with Gap where nothing has       *)
(* arrived yet: getch returns ERR and the coroutine waits for the           *)
(* descriptor.  Restart is a stop_input and start_input, before and after a *)
(* program that uses the terminal: the coroutine ends where it waits, its   *)
(* local variables with it, and another one begins.                         *)
(***************************************************************************)
EXTENDS Integers, Sequences, FiniteSets

CONSTANTS
    Keys,             \* what else can be read, in a paste and after an Esc too
    MaxKeys           \* bounds the input

Gap == -1             \* ERR
Restart == -2
Pause == {Gap, Restart}
Esc == 27
Up == 259             \* a function key of ncurses
KEY_EXIT == 361
KEY_RESUME == 375
KEY_MOUSE == 409
start_paste == 512
end_paste == 513
focus_gained == 514
focus_lost == 515

ASSUME KeyboardAssumption == Keys \subseteq Nat /\ MaxKeys \in Nat

VARIABLES
    keys,             \* history: all that getch has returned
    place,            \* "typing", "escape" after an Esc, "paste" for in_paste
    paste,            \* the text of the paste so far
    mbstate,          \* "initial", or "pending" inside a character
    calls,            \* history: the calls of Lua, each a kind and an argument
    at                \* history: the position in keys at which each was made

keyboardVars == <<keys, place, paste, mbstate, calls, at>>

-----------------------------------------------------------------------------
(* One turn of the loop over getch                                          *)

Got(key) == Len(keys) < MaxKeys /\ keys' = Append(keys, key)

Call(kind, arg) ==
    /\ calls' = Append(calls, <<kind, arg>>)
    /\ at' = Append(at, Len(keys) + 1)

NoCall == UNCHANGED <<calls, at>>

\* paste.push_back keeps the low byte of a key
PastedByte(key) == key % 256

PasteKey(key) ==
    /\ place = "paste" /\ key # end_paste
    /\ Got(key) /\ NoCall
    /\ paste' = Append(paste, PastedByte(key))
    /\ UNCHANGED <<place, mbstate>>

\* mutant: the text stays for the next paste
PasteEndNoClear ==
    /\ place = "paste"
    /\ Got(end_paste) /\ Call("paste", paste)
    /\ place' = "typing"
    /\ UNCHANGED <<paste, mbstate>>

PasteEnd ==
    /\ place = "paste"
    /\ Got(end_paste) /\ Call("paste", paste)
    /\ place' = "typing" /\ paste' = <<>>
    /\ UNCHANGED mbstate

\* the getch after an Esc
EscKey(key) ==
    /\ place = "escape"
    /\ Got(key) /\ Call("key", -key)
    /\ place' = "typing"
    /\ UNCHANGED <<paste, mbstate>>

EscBegin ==
    /\ place = "typing"
    /\ Got(Esc) /\ NoCall
    /\ place' = "escape"
    /\ UNCHANGED <<paste, mbstate>>

\* only a click is passed on
MouseKey ==
    /\ place = "typing"
    /\ Got(KEY_MOUSE)
    /\ Call("mouse", 0) \/ NoCall
    /\ UNCHANGED <<place, paste, mbstate>>

PasteBegin ==
    /\ place = "typing"
    /\ Got(start_paste) /\ NoCall
    /\ place' = "paste"
    /\ UNCHANGED <<paste, mbstate>>

\* what on_keyboard gets for a key that is none of the above and no byte of a
\* longer character
KeyCode(key) ==
    IF key = focus_gained THEN -KEY_RESUME
    ELSE IF key = focus_lost THEN -KEY_EXIT
    ELSE IF key > 255 THEN -key
    ELSE key

IsByte(key) == key \in 128..255

PlainKey(key) ==
    /\ place = "typing" /\ key \notin {Esc, KEY_MOUSE, start_paste} /\ ~IsByte(key)
    /\ Got(key) /\ Call("key", KeyCode(key))
    /\ UNCHANGED <<place, paste, mbstate>>

\* external: mbrtowc, one byte at a time, for characters of two bytes.  After
\* an invalid byte the state is not specified.
IsLead(key) == key >= 192
Code(key) == 1000 + key

ByteKey(key) ==
    /\ place = "typing" /\ IsByte(key)
    /\ Got(key)
    /\ \/ mbstate = "initial" /\ IsLead(key) /\ mbstate' = "pending" /\ NoCall
       \/ mbstate = "pending" /\ ~IsLead(key) /\ mbstate' = "initial" /\ Call("key", Code(key))
       \/ (mbstate = "pending") = IsLead(key) /\ mbstate' \in {"initial", "pending"} /\ NoCall
    /\ UNCHANGED <<place, paste>>

-----------------------------------------------------------------------------
(* getch returns ERR                                                        *)

EscAlone ==
    /\ place = "escape"
    /\ Got(Gap) /\ Call("key", Esc)
    /\ place' = "typing"
    /\ UNCHANGED <<paste, mbstate>>

\* the coroutine waits for the descriptor
Waits ==
    /\ place # "escape"
    /\ Got(Gap) /\ NoCall
    /\ UNCHANGED <<place, paste, mbstate>>

\* stop_input cancels the wait
Restarts ==
    /\ place # "escape"
    /\ Got(Restart) /\ NoCall
    /\ place' = "typing" /\ paste' = <<>> /\ mbstate' = "initial"

-----------------------------------------------------------------------------
KeyboardInit ==
    /\ keys = <<>> /\ place = "typing" /\ paste = <<>> /\ mbstate = "initial"
    /\ calls = <<>> /\ at = <<>>

KeyboardNext ==
    \/ PasteEnd \/ EscBegin \/ MouseKey \/ PasteBegin
    \/ EscAlone \/ Waits \/ Restarts
    \/ \E key \in Keys : PasteKey(key) \/ EscKey(key) \/ PlainKey(key) \/ ByteKey(key)

KeyboardSpec == KeyboardInit /\ [][KeyboardNext]_keyboardVars

-----------------------------------------------------------------------------
(* How the input should be seen, read off the input: what is at position i, *)
(* from the keys before it.                                                 *)

\* the run of Esc before i is n long
EscRun(input, i, n) ==
    /\ \A j \in (i - n)..(i - 1) : input[j] = Esc
    /\ n = i - 1 \/ input[i - n - 1] # Esc

\* there is an Esc before i that is not itself the second of two
Escaped(input, i) == \E n \in 1..(i - 1) : n % 2 = 1 /\ EscRun(input, i, n)

\* a paste that begins at j has not ended before i
Opens(input, i, j) ==
    /\ input[j] = start_paste /\ ~Escaped(input, j)
    /\ \A k \in (j + 1)..(i - 1) : input[k] \notin {end_paste, Restart}

InPaste(input, i) == \E j \in 1..(i - 1) : Opens(input, i, j)

IsTyped(input, i) == ~InPaste(input, i) /\ ~Escaped(input, i)

\* the keys read between j and i, and those up to k
Inside(input, i, j) == {k \in (j + 1)..(i - 1) : input[k] # Gap}
UpTo(set, k) == {m \in set : m <= k}

\* text is what was read between j and i
IsText(text, input, i, j) ==
    /\ Len(text) = Cardinality(Inside(input, i, j))
    /\ \A k \in Inside(input, i, j) :
          text[Cardinality(UpTo(Inside(input, i, j), k))] = PastedByte(input[k])

\* j is the last byte of a longer character before i that the coroutine has read
LastByte(input, i, j) ==
    /\ IsTyped(input, j) /\ IsByte(input[j])
    /\ \A k \in (j + 1)..(i - 1) :
          input[k] # Restart /\ ~(IsTyped(input, k) /\ IsByte(input[k]))

Silent == Pause \cup {Esc, KEY_MOUSE, start_paste}

\* a key that is passed on by itself
IsPlain(input, i) ==
    IsTyped(input, i) /\ input[i] \notin Silent /\ ~IsByte(input[i])

EndsPaste(input, i) == InPaste(input, i) /\ input[i] = end_paste
IsMeta(input, i) == ~InPaste(input, i) /\ Escaped(input, i)

\* a call was made at i
Called(used, i) == \E n \in DOMAIN used : used[n] = i

\* i may end a character, if a byte before it did not, and has to if that one
\* began it; used holds the positions at which calls were made
MayEnd(input, used, i) ==
    /\ IsTyped(input, i) /\ IsByte(input[i]) /\ ~IsLead(input[i])
    /\ \E j \in 1..(i - 1) :
          LastByte(input, i, j) /\ (IsLead(input[j]) \/ ~Called(used, j))

Ends(input, used, i) ==
    /\ IsTyped(input, i) /\ IsByte(input[i]) /\ ~IsLead(input[i])
    /\ \E j \in 1..(i - 1) :
          /\ LastByte(input, i, j) /\ IsLead(input[j])
          /\ \A h \in 1..(j - 1) : LastByte(input, j, h) => Called(used, h)

\* call is what should be made of position i
IsRight(call, input, used, i) ==
    \/ /\ call[1] = "paste" /\ EndsPaste(input, i)
       /\ \E j \in 1..(i - 1) :
             Opens(input, i, j) /\ ~InPaste(input, j) /\ IsText(call[2], input, i, j)
    \/ /\ call[1] = "key" /\ IsMeta(input, i)
       /\ call[2] = IF input[i] = Gap THEN Esc ELSE -input[i]
    \/ /\ call[1] = "key" /\ IsPlain(input, i)
       /\ call[2] = KeyCode(input[i])
    \/ /\ call[1] = "key" /\ MayEnd(input, used, i)
       /\ call[2] = Code(input[i])
    \/ /\ call[1] = "mouse" /\ IsTyped(input, i) /\ input[i] = KEY_MOUSE

\* Every key is seen once, in order, as what it is: a paste is delivered whole
\* and alone, no key of it is taken for a typed one, Esc goes with the key that
\* follows at once, and pauses in a character or a paste change nothing.  Only
\* a program that takes the terminal in a paste or a character loses it
\* (app.cpp:94-164).
KeysAreRead ==
    /\ Len(at) = Len(calls)
    /\ \A m, n \in DOMAIN at : m < n => at[m] < at[n]
    /\ \A n \in DOMAIN at : at[n] \in 1..Len(keys) /\ IsRight(calls[n], keys, at, at[n])
    /\ \A i \in 1..Len(keys) :
          EndsPaste(keys, i) \/ IsMeta(keys, i) \/ IsPlain(keys, i) \/ Ends(keys, at, i)
             => Called(at, i)

=============================================================================
