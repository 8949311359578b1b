------------------------------ MODULE Console -------------------------------
(***************************************************************************)
(* The screen of the server: its box fits the terminal, and the texts of a *)
(* printf are made in buffers that go round (console.c).                   *)
(*                                                                         *)
(* A screen is a sequence of outputs: printf, or snprintf into a local     *)
(* buffer.  The arguments of an output are chains of calls: "make" for     *)
(* console_center and console_pad_right, "paint" for console_colorize; C   *)
(* leaves open in which order the calls of different arguments happen.     *)
(* Texts count by their length in cells and in bytes.                      *)
(***************************************************************************)
EXTENDS Integers, SequencesExt

CONSTANTS
    SlotCount,                      \* SLOT_COUNT (8)
    MinWidth, MaxWidth, Fallback    \* CONSOLE_MIN_WIDTH (48), CONSOLE_MAX_WIDTH (74),
                                    \* CONSOLE_FALLBACK_WIDTH (80)

ASSUME WidthAssumption ==
    /\ SlotCount \in Nat \ {0} /\ MinWidth \in Nat /\ MaxWidth \in Nat /\ Fallback \in Nat
    /\ 16 =< MinWidth /\ MinWidth =< MaxWidth

VARIABLES
    term,       \* the terminal and the variables of the environment about it
    todo,       \* the outputs still to come, the current one first
    ptrs,       \* per argument of the current output: calls made, and the buffer it points
                \* to with the number of the call that filled it (0 if to none)
    index,      \* of next_slot
    owner       \* per buffer, the argument and the call that filled it last

screenVars == <<todo, ptrs, index, owner>>

-----------------------------------------------------------------------------
(* Capabilities *)

ColorEnabled == ~term.noColor /\ term.tty

\* console_is_utf8: any of LC_ALL, LC_CTYPE and LANG will do, in whatever order they count.
IsUtf8 == \E i \in DOMAIN term.locale : term.locale[i] = "UTF-8"

UnicodeEnabled == IsUtf8 /\ term.tty

\* The first source that tells a width: TIOCGWINSZ, then COLUMNS, then a guess.
Columns == IF term.columns > 0 THEN term.columns ELSE IF term.env > 0 THEN term.env ELSE Fallback

Width ==
    LET c == IF Columns > 4 THEN Columns - 4 ELSE Columns
    IN  IF c < MinWidth THEN MinWidth ELSE IF c > MaxWidth THEN MaxWidth ELSE c

Inner == Width - 2

-----------------------------------------------------------------------------
(* Outputs *)

\* Bytes of the longest colour and of the reset behind it.
Paint == IF ColorEnabled THEN 17 ELSE 0

Glyph(unicode, ascii) == IF UnicodeEnabled THEN unicode ELSE ascii
Rad == Glyph(1, 11)         \* cells of the trefoil, or of "[RADIATION]"

\* An output of the given chains; cells of the line in the box, if it is one;
\* cells of its text left out; its bytes, and the buffer they go to.
Output(args, cells, lost, bytes, cap) == [args |-> args, cells |-> cells, lost |-> lost, bytes |-> bytes, cap |-> cap]

Copy(chain, bytes, cap) == Output(<<chain>>, 0, 0, bytes, cap)
Printf(args) == Output(args, 0, 0, 0, 1)
Line(args, cells, lost) == Output(args, cells, lost, 0, 1)

Text == <<>>
Painted == <<"paint">>
MadeAndPainted == <<"make", "paint">>

RuleBuffer == MaxWidth * 4 + 16
RowBuffer == MaxWidth * 2 + 16

Centered(used, width) == IF used >= width THEN used ELSE width

\* repeat: so many of a glyph of three bytes, or one, as fit a RuleBuffer.
Repeat(count) == Max({k \in 0 .. count : k = 0 \/ k * Glyph(3, 1) + 1 < RuleBuffer})

CopyRule(count) == Copy(Painted, Repeat(count) * Glyph(3, 1) + Paint, RuleBuffer + 32)

DrawRule == <<CopyRule(Inner), Line(<<Painted, Text, Painted>>, 1 + Repeat(Inner) + 1, 0)>>

\* Mutant of RowRoom: a cell is left free on each side, and one more.
RowRoomTight == Inner - 3

RowRoom == Inner - 2

\* A text of `used` cells and `extra` more bytes.
DrawRow(used, extra) ==
    LET kept == IF used > RowRoom THEN RowRoom ELSE used
    IN  <<Copy(MadeAndPainted, Centered(kept, Inner) + extra + Paint, RowBuffer),
          Line(<<Painted, Text, Painted>>, 1 + Centered(kept, Inner) + 1, used - kept)>>

DrawBlank == <<Copy(<<"make">>, Inner, RowBuffer), Line(<<Painted, Text, Painted>>, 1 + Inner + 1, 0)>>

\* The closing line: two rules around a gap of six cells.
DrawClosing ==
    LET lead == (Inner - 6) \div 2
        trail == Inner - 6 - lead
    IN  <<CopyRule(lead), CopyRule(trail),
          Line(<<Painted, Text, Painted, Text, Painted>>, 1 + Repeat(lead) + 6 + Repeat(trail) + 1, 0)>>

\* The same outputs n times over.
Times(n, outputs) == [i \in 1 .. n * Len(outputs) |-> outputs[((i - 1) % Len(outputs)) + 1]]

\* console_print_boot, unless the animation is not wanted: the mark, the head,
\* five lines of 37 cells at most, six pictures of the bar, and a last line.
BootScreen ==
    LET bar == IF Inner > 30 THEN Inner - 30 ELSE 16
        Bar(percent) == LET done == (bar * percent) \div 100
                        IN  <<CopyRule(done), CopyRule(bar - done), Printf(<<Text, Text>>)>>
        Caption(bytes, cap) == <<Copy(MadeAndPainted, bytes + Paint, cap), Printf(<<Text>>)>>
    IN  IF ~term.tty \/ term.noAnimation \/ term.ci THEN <<>>
        ELSE Caption(16 + Glyph(2, 0), 64) \o Caption(16, 64)
             \o Caption(Inner, RuleBuffer + 32) \o Caption(Inner + Glyph(2, 0), RuleBuffer + 32)
             \o Times(5, <<Copy(Painted, 37 + Paint, 256), Copy(Painted, 2 + Glyph(3, 2) + Paint, 64),
                           Printf(<<Text, Text>>)>>)
             \o Bar(0) \o Bar(20) \o Bar(40) \o Bar(60) \o Bar(80) \o Bar(100)
             \o Caption(Inner, RuleBuffer + 32)

\* console_print_banner.  In the box: "* REACTOR CORE *", "* NUCLEAR C API SERVER *",
\* "v0.2.0 - HTTP/1.1 - JSON - SQLITE WAL" and "RADIATION STATUS: NOMINAL".
BannerScreen ==
    LET Heading == <<Printf(<<Painted, Painted, Text>>)>>
        Two == <<Printf(<<Painted, Painted>>)>>
        Fact == <<Printf(<<MadeAndPainted, Text>>)>>
        Auth == <<Printf(<<MadeAndPainted, Painted>>)>>
        Status == <<Printf(<<MadeAndPainted, Painted, Painted>>)>>
        Endpoint == <<Printf(<<Painted, Painted, Painted, Painted>>)>>
    IN  DrawRule \o DrawBlank \o DrawRow(14 + 2 * Rad, Glyph(4, 0))
        \o DrawBlank \o DrawRow(22 + 2 * Rad, Glyph(4, 0))
        \o DrawBlank \o DrawRow(37, Glyph(3, 0))
        \o DrawBlank \o DrawRow(25, 0) \o DrawBlank \o DrawClosing
        \o Heading \o Two \o Heading \o Times(4, Endpoint)
        \o <<Printf(<<Painted, Text, Text>>)>> \o Times(3, Fact) \o Auth
        \o Heading \o Times(3, Two) \o Heading \o Times(2, Status) \o Auth

\* console_print_shutdown
ShutdownScreen ==
    IF ~term.tty THEN <<>>
    ELSE <<Printf(<<Painted, Painted>>)>> \o Times(4, <<Printf(<<Painted, Painted, Text, Text>>)>>)

-----------------------------------------------------------------------------
(* Drawing *)

NoPtr == [calls |-> 0, slot |-> 0, at |-> 0]
NoOwner == <<0, 0>>
Slots == 0 .. SlotCount - 1

Fresh(outputs) == IF outputs = <<>> THEN <<>> ELSE [a \in DOMAIN Head(outputs).args |-> NoPtr]

ConsoleInit == todo = <<>> /\ ptrs = <<>> /\ index = 0 /\ owner = [s \in Slots |-> NoOwner]

\* A screen begins.
Show(screen) == todo' = screen /\ ptrs' = Fresh(screen) /\ UNCHANGED <<index, owner>>

\* Mutant of NextSlot: three buffers.
NextSlotOfThree(i) == (i + 1) % 3

NextSlot(i) == (i + 1) % SlotCount

\* The next call of argument a.  Without colours console_colorize hands its text
\* on; every other call fills the next buffer.
Call(a) ==
    LET n == ptrs[a].calls + 1
        chain == Head(todo).args[a]
    IN  /\ n =< Len(chain)
        /\ IF chain[n] = "paint" /\ ~ColorEnabled
           THEN ptrs' = [ptrs EXCEPT ![a].calls = n] /\ UNCHANGED <<index, owner>>
           ELSE /\ ptrs' = [ptrs EXCEPT ![a] = [calls |-> n, slot |-> index, at |-> n]]
                /\ owner' = [owner EXCEPT ![index] = <<a, n>>]
                /\ index' = NextSlot(index)
        /\ UNCHANGED todo

\* All arguments are there: the texts are put out, and nothing points to a buffer any more.
Put ==
    /\ todo # <<>> /\ \A a \in DOMAIN ptrs : ptrs[a].calls = Len(Head(todo).args[a])
    /\ todo' = Tail(todo) /\ ptrs' = Fresh(Tail(todo))
    /\ owner' = [s \in Slots |-> NoOwner] /\ UNCHANGED index

Draw == (\E a \in DOMAIN ptrs : Call(a)) \/ Put

-----------------------------------------------------------------------------
(* Properties *)

\* No call fills a buffer whose text is still to be painted or printed, in
\* whatever order the arguments of a printf are evaluated.
TextsIntact == \A a \in DOMAIN ptrs : ptrs[a].at > 0 => owner[ptrs[a].slot] = <<a, ptrs[a].at>>

\* Every line of the box is as wide as the others; the box stays inside a
\* terminal that is wider than the least width; no line of the banner is cut
\* short, with long ASCII glyphs and at the least width too, and no text, with
\* the reset behind it, is too long for its buffer.
BoxIsWhole ==
    todo # <<>> => /\ Head(todo).cells \in {0, Width} /\ (Columns > MinWidth => Width < Columns)
                   /\ Head(todo).lost = 0 /\ Head(todo).bytes < Head(todo).cap
=============================================================================
