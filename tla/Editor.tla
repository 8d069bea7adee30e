------------------------------- MODULE Editor -------------------------------
(***************************************************************************)
(* The input line: src/ircc/components/Editor.lua and the keys that reach  *)
(* it (handlers/input.lua, on_keyboard and on_paste in init.lua).          *)
(*                                                                         *)
(* The text is a sequence of code points; the cursor is the position the   *)
(* next code is inserted at.  0 stands for no position in the history.     *)
(***************************************************************************)
EXTENDS Integers, Sequences, FiniteSets, Functions

CONSTANTS Codes,        \* codes that can be typed
          Lists,        \* lists of completions the tab key may find
          MaxLen,       \* bound on the text
          MaxHistory,   \* bound on the lines of the history
          MaxHeld       \* bound on all the codes the editor holds

ASSUME EditorAssumption ==
    /\ Codes \subseteq Nat \ {0, 10, 13}
    /\ \A list \in Lists : list \in Seq(Seq(Nat)) /\ list # << >>
    /\ MaxLen \in Nat /\ MaxHistory \in Nat /\ MaxHeld \in Nat

VARIABLES buffer, cursor, history, retrospect, stash, yank,
          state,        \* edit, kill, tab
          tablist, tabix,
          base          \* the text when the run of kills began, or the text
                        \* before and after the word that tab completes

hist == <<history, retrospect, stash>>
tabs == <<tablist, tabix>>
editorVars == <<buffer, cursor, hist, yank, state, tabs, base>>

Size == Len(buffer)

Held ==
    Size + Len(yank) + Len(stash)
        + FoldFunction(LAMBDA line, sum : Len(line) + sum, 0, history)

\* k more codes stay within the bounds
Room(k) == Size + k <= MaxLen /\ Held + k <= MaxHeld

\* the text without the positions i .. j, and with t inserted before i
RemoveValues(s, i, j) == SubSeq(s, 1, i - 1) \o SubSeq(s, j + 1, Len(s))
InsertValues(s, i, t) == SubSeq(s, 1, i - 1) \o t \o SubSeq(s, i, Len(s))
RemoveAt(s, i) == RemoveValues(s, i, i)

EditorInit ==
    /\ buffer = << >> /\ cursor = 1
    /\ history = << >> /\ retrospect = 0 /\ stash = << >>
    /\ yank = << >> /\ state = "edit"
    /\ tablist = << >> /\ tabix = 0
    /\ base = << >>

\* move, which ends a run of kills or tabs unless it is one of them; the words
\* of a run that has ended are not read again and are forgotten
Move(x, st) ==
    /\ cursor' = x
    /\ state' = st
    /\ st = "edit" => base' = << >>
    /\ st # "tab" => tablist' = << >> /\ tabix' = 0

(***************************************************************************)
(* Words                                                                   *)
(***************************************************************************)

Least(S) == CHOOSE i \in S : \A j \in S : i <= j
Greatest(S) == CHOOSE i \in S : \A j \in S : i >= j

\* snowcone.isalnum, and what ends a word for the tab key
Alnum == (48 .. 57) \cup (65 .. 90) \cup (97 .. 122)
NotSpace == Nat \ {32}

SearchNextWord ==
    IF cursor > Size THEN cursor
    ELSE Least({j \in cursor + 1 .. Size + 1 :
                  j = Size + 1 \/ (buffer[j - 1] \in Alnum /\ buffer[j] \notin Alnum)})

SearchPrevWord(letters) ==
    LET start == IF 1 < cursor THEN cursor - 1 ELSE cursor
        last  == Greatest({j \in 1 .. start : j = 1 \/ buffer[j] \in letters})
    IN Greatest({j \in 1 .. last : j = 1 \/ buffer[j - 1] \notin letters})

(***************************************************************************)
(* Typing and moving                                                       *)
(***************************************************************************)

Add(code) ==
    /\ Room(1)
    /\ buffer' = InsertValues(buffer, cursor, <<code>>)
    /\ Move(cursor + 1, "edit")
    /\ UNCHANGED <<hist, yank>>

\* backspace removes the code before the cursor, delete the one under it
Backspace ==
    /\ 1 < cursor
    /\ buffer' = RemoveAt(buffer, cursor - 1)
    /\ Move(cursor - 1, "edit")
    /\ UNCHANGED <<hist, yank>>

Delete ==
    /\ buffer' = IF cursor <= Size THEN RemoveAt(buffer, cursor) ELSE buffer
    /\ Move(cursor, "edit")
    /\ UNCHANGED <<hist, yank>>

\* move_to_beg, move_to_end, move_left, move_right and the word moves
MoveTo ==
    /\ \E x \in {1, Size + 1, SearchNextWord, SearchPrevWord(Alnum)} \cup
               (IF 1 < cursor THEN {cursor - 1} ELSE {}) \cup
               (IF cursor <= Size THEN {cursor + 1} ELSE {}) :
          Move(x, "edit")
    /\ UNCHANGED <<buffer, hist, yank>>

\* swap
Swap ==
    LET i == IF cursor = 1 THEN 3 ELSE IF cursor <= Size THEN cursor + 1 ELSE cursor
    IN /\ Size > 1
       /\ buffer' = [buffer EXCEPT ![i - 2] = buffer[i - 1], ![i - 1] = buffer[i - 2]]
       /\ Move(i, "edit")
       /\ UNCHANGED <<hist, yank>>

(***************************************************************************)
(* hexinput                                                                *)
(***************************************************************************)

HexDigit(c) == CASE c \in 48 .. 57  -> c - 48
                 [] c \in 65 .. 70  -> c - 55
                 [] c \in 97 .. 102 -> c - 87
                 [] OTHER           -> 16

\* there is a ^ and a code that it applies to before the cursor
IsControl ==
    /\ cursor > 2
    /\ buffer[cursor - 2] = 94
    /\ buffer[cursor - 1] \in 65 .. 95

\* ^A style: the two codes become a control character
Control ==
    LET last == cursor - 1
    IN /\ buffer' = RemoveAt([buffer EXCEPT ![last - 1] = buffer[last] - 64], last)
       /\ Move(last, "edit")

\* the last code point of Unicode
MaxCode == 1114111

\* the number that the digits after x say
HexValue(x, last) ==
    LET acc[j \in x .. last] == IF j = x THEN 0 ELSE 16 * acc[j - 1] + HexDigit(buffer[j])
    IN acc[last]

\* x0123 style; a last code that is no digit raises, which changes nothing
Hex ==
    LET last   == cursor - 1
        starts == {p \in 1 .. last - 1 :
                     /\ buffer[p] = 120
                     /\ \A j \in p + 1 .. last : HexDigit(buffer[j]) < 16}
        x      == Greatest(starts)
    IN /\ starts # {}
       /\ HexValue(x, last) \in 1 .. MaxCode /\ HexValue(x, last) \notin {10, 13}
       /\ buffer' = [RemoveValues(buffer, x + 1, last) EXCEPT ![x] = HexValue(x, last)]
       /\ Move(x + 1, "edit")

HexInput ==
    /\ IF IsControl THEN Control ELSE Hex
    /\ UNCHANGED <<hist, yank>>

(***************************************************************************)
(* Killing and yanking                                                     *)
(***************************************************************************)

\* mutant: what is killed to the left is put behind what was killed before
KillAppends(i, j, left) ==
    /\ yank' = IF state = "kill" THEN yank \o SubSeq(buffer, i, j) ELSE SubSeq(buffer, i, j)
    /\ base' = IF state = "kill" THEN base ELSE buffer
    /\ buffer' = RemoveValues(buffer, i, j)
    /\ Move(i, "kill")
    /\ UNCHANGED hist

\* a run of kills gathers what is killed on the left and on the right
Kill(i, j, left) ==
    /\ yank' = IF state # "kill" THEN SubSeq(buffer, i, j)
               ELSE IF left THEN SubSeq(buffer, i, j) \o yank
               ELSE yank \o SubSeq(buffer, i, j)
    /\ base' = IF state = "kill" THEN base ELSE buffer
    /\ buffer' = RemoveValues(buffer, i, j)
    /\ Move(i, "kill")
    /\ UNCHANGED hist

KillToBeg == Kill(1, cursor - 1, TRUE)
KillToEnd == Kill(cursor, Size, FALSE)
KillPrevWord == Kill(SearchPrevWord(Alnum), cursor - 1, TRUE)
KillNextWord == Kill(cursor, SearchNextWord - 1, FALSE)

\* paste
Paste ==
    /\ Room(Len(yank))
    /\ buffer' = InsertValues(buffer, cursor, yank)
    /\ Move(cursor + Len(yank), "edit")
    /\ UNCHANGED <<hist, yank>>

(***************************************************************************)
(* Completion                                                              *)
(***************************************************************************)

\* replace the text between i and the cursor by word
Replace(i, word) ==
    /\ Room(Len(word) - (cursor - i))
    /\ buffer' = InsertValues(RemoveValues(buffer, i, cursor - 1), i, word)
    /\ Move(i + Len(word), "tab")
    /\ UNCHANGED <<hist, yank>>

\* mutant: takes the length of the word that is about to be inserted
TabAgainLate(dir) ==
    LET ix == ((tabix + dir - 1) % Len(tablist)) + 1
    IN /\ state = "tab"
       /\ cursor > Len(tablist[ix])
       /\ tabix' = ix /\ UNCHANGED <<tablist, base>>
       /\ Replace(cursor - Len(tablist[ix]), tablist[ix])

\* tab, once more: the next word of the list; dir is 1 or -1, modulo the list
TabAgain(dir) ==
    LET ix == ((tabix + dir - 1) % Len(tablist)) + 1
    IN /\ state = "tab"
       /\ tabix' = ix /\ UNCHANGED <<tablist, base>>
       /\ Replace(cursor - Len(tablist[tabix]), tablist[ix])

\* tab, the first time: mklist finds completions; if not, tab does nothing
TabFirst ==
    /\ state # "tab"
    /\ LET i == SearchPrevWord(NotSpace)
       IN /\ \E list \in Lists :
                tablist' = list /\ tabix' = 1 /\ Replace(i, list[1])
          /\ base' = <<SubSeq(buffer, 1, i - 1), SubSeq(buffer, cursor, Size)>>

(***************************************************************************)
(* History                                                                 *)
(***************************************************************************)

\* reset, by Esc and by Enter
Reset ==
    /\ buffer' = << >> /\ retrospect' = 0 /\ stash' = << >>
    /\ Move(1, "edit")
    /\ UNCHANGED <<history, yank>>

\* tablex.compare_no_order
SameCodes(s, t) ==
    \A c \in {s[i] : i \in DOMAIN s} \cup {t[i] : i \in DOMAIN t} :
        Cardinality({i \in DOMAIN s : s[i] = c}) = Cardinality({i \in DOMAIN t : t[i] = c})

\* execute.command: white space is not a command
Confirm ==
    /\ \E i \in DOMAIN buffer : buffer[i] \notin {9, 10, 11, 12, 13, 32}
    /\ LET n == Len(history)
       IN IF n # 0 /\ SameCodes(history[n], buffer) THEN UNCHANGED history
          ELSE n < MaxHistory /\ history' = Append(history, buffer)
    /\ buffer' = << >> /\ retrospect' = 0 /\ stash' = << >>
    /\ Move(1, "edit")
    /\ UNCHANGED yank

\* mutant: an entry that was emptied is kept
SavedEmpty(r) == [history EXCEPT ![r] = buffer]

\* the history with the edited text saved at r, an emptied entry removed
Saved(r) ==
    IF buffer # << >> THEN [history EXCEPT ![r] = buffer] ELSE RemoveAt(history, r)

Show(text) == buffer' = text /\ Move(Len(text) + 1, "edit")

OlderHistory ==
    /\ \/ /\ 1 < retrospect
          /\ history' = Saved(retrospect)
          /\ retrospect' = retrospect - 1
          /\ Show(history[retrospect - 1])
          /\ UNCHANGED stash
       \/ /\ retrospect = 0 /\ history # << >>
          /\ Held + Len(history[Len(history)]) <= MaxHeld
          /\ retrospect' = Len(history)
          /\ stash' = buffer
          /\ Show(history[Len(history)])
          /\ UNCHANGED history
    /\ UNCHANGED yank

NewerHistory ==
    /\ retrospect # 0
    /\ history' = Saved(retrospect)
    /\ LET r == IF buffer # << >> THEN retrospect + 1 ELSE retrospect
       IN IF r > Len(history')
          THEN retrospect' = 0 /\ stash' = << >> /\ Show(stash)
          ELSE retrospect' = r /\ UNCHANGED stash /\ Show(history'[r])
    /\ UNCHANGED yank

EditorNext ==
    \/ \E code \in Codes : Add(code)
    \/ Backspace \/ Delete \/ MoveTo \/ Swap \/ HexInput
    \/ KillToBeg \/ KillToEnd \/ KillPrevWord \/ KillNextWord \/ Paste
    \/ TabAgain(1) \/ TabAgain(-1) \/ TabFirst
    \/ Reset \/ Confirm \/ OlderHistory \/ NewerHistory

EditorSpec == EditorInit /\ [][EditorNext]_editorVars

----------------------------------------------------------------------------

EditorTypeOK ==
    /\ buffer \in Seq(Nat)
    /\ cursor \in 1 .. Size + 1
    /\ retrospect \in 0 .. Len(history)
    /\ yank \in Seq(Nat)
    /\ state \in {"edit", "kill", "tab"}
    /\ tabix \in 0 .. Len(tablist)

\* A run of kills is undone by paste: whatever mixture of kills to the left and
\* to the right, by words or to the ends, the yanked text put back at the
\* cursor gives the text from before the run.
KillsComeBack ==
    /\ EditorTypeOK
    /\ state = "kill" => InsertValues(buffer, cursor, yank) = base

\* Tab replaces the word it inserted before and nothing else, forwards and
\* backwards through words of different lengths: the code knows that word only
\* by its length before the cursor.
TabsReplace ==
    state = "tab" =>
        /\ buffer = base[1] \o tablist[tabix] \o base[2]
        /\ cursor = Len(base[1]) + Len(tablist[tabix]) + 1

\* The history holds no empty line, although lines in it can be edited down to
\* nothing on the way past them.
NoEmptyHistory == \A i \in DOMAIN history : history[i] # << >>
=============================================================================
