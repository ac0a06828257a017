------------------------------- MODULE Console -------------------------------
(***************************************************************************)
(* The kernel's output: kprintf (kernel_ui.cpp) with the framebuffer       *)
(* (drivers/framebuffer.cpp, graphics/draw_util.cpp) and the serial port   *)
(* (drivers/serial.cpp) it falls back to before the screen is set up.      *)
(*                                                                         *)
(* The cursor of the text section is shared and has no lock.  Who writes:  *)
(* "main" is kernel_main on the boot processor, "ap" is the application    *)
(* processor it has started and waits for without a word (module SmpBoot), *)
(* "sci" is the system control interrupt on the boot processor, which      *)
(* keeps main from running but not ap.  Loads and stores of the cursor are *)
(* steps of their own; drawing a glyph and scrolling are one step each,    *)
(* since where they leave colours does not depend on the order of pixels.  *)
(***************************************************************************)
EXTENDS Printf

CONSTANTS WIDTH, HEIGHT,           \* the screen in pixels
          FONT_WIDTH, FONT_HEIGHT, \* a glyph in pixels
          Title,                   \* the text on the upper frame line
          Prefix,                  \* Prefix[t]: what a print of type t begins with
          Unprintable,             \* the characters without a glyph, newline aside
          Early, Messages,         \* the prints before and after the screen is set up
          MaxPrints                \* bound on the prints of each writer

Writers == {"main", "ap", "sci"}
Newline == "newline"
Cells(from, to, size) == (to - from) \div size

ASSUME ConsoleAssumption ==
    /\ FONT_WIDTH \in Nat \ {0} /\ FONT_HEIGHT \in Nat \ {0}
    /\ WIDTH \in Nat /\ HEIGHT \in Nat
    /\ WIDTH >= 5 * FONT_WIDTH /\ HEIGHT >= 5 * FONT_HEIGHT
    /\ Title \in Seq(Characters) /\ (Len(Title) + 1) * FONT_WIDTH <= WIDTH

ASSUME MessagesAssumption ==
    /\ Newline \in Characters
    /\ \A m \in Early : Format(m.fmt)
    /\ \A w \in Writers : \A m \in Messages[w] :
          Format(m.fmt) /\ Prefix[m.type] \in Seq(Characters)

Screen == (0..(WIDTH - 1)) \X (0..(HEIGHT - 1))
Blank  == <<>>
Line   == <<"line">>

\* default_gui_section.
startX == 2 * FONT_WIDTH
startY == 2 * FONT_HEIGHT
endX   == WIDTH - 2 * FONT_WIDTH
endY   == HEIGHT - 2 * FONT_HEIGHT
max_cols == Cells(startX, endX, FONT_WIDTH)
max_rows == Cells(startY, endY, FONT_HEIGHT)

VARIABLES initialized, \* KernelGUI::initialized
          port,        \* has the serial port passed its loopback test?
          serial,      \* what the serial port has sent, forgotten once the screen is up
          screen,      \* the colour of each pixel
          col, row,    \* curr_cords of the active section
          writer,      \* writer[w]: where it is in kprintf
          printed,     \* prints begun by each writer
          log,         \* ghost: the text printed so far, as its formats mean it
          mixed,       \* ghost: have two prints overlapped?
          raced        \* ghost: have they done so on two processors?

vars == <<initialized, port, serial, screen, col, row, writer, printed, log, mixed,
          raced>>
cursor == <<col, row>>
ghost  == <<printed, log, mixed, raced>>
setup  == <<initialized, port, serial>>

Idle == [at |-> "idle", text |-> <<>>, px |-> 0, py |-> 0, reg |-> 0, own |-> FALSE]

\* A writer before the first of the characters it has left to print.
Printing(text) == IF text = <<>> THEN Idle ELSE [Idle EXCEPT !.at = "char", !.text = text]

-----------------------------------------------------------------------------
(* Drawing.                                                                 *)

\* The colours of a glyph, which is FONT_WIDTH x FONT_HEIGHT pixels.
Glyph(c, dx, dy) == IF c = " " THEN Blank ELSE <<c, dx, dy>>

\* draw_char; put_pixel ignores what is off the screen.
draw_char(s, px, py, c) ==
    [p \in Screen |->
        IF /\ c \notin Unprintable
           /\ p[1] \in px..(px + FONT_WIDTH - 1) /\ p[2] \in py..(py + FONT_HEIGHT - 1)
        THEN Glyph(c, p[1] - px, p[2] - py) ELSE s[p]]

\* The four draw_lines of KernelGUI::initialize.
Frame == {p \in Screen :
            /\ p[1] \in FONT_WIDTH..(WIDTH - FONT_WIDTH)
            /\ p[2] \in FONT_HEIGHT..(HEIGHT - FONT_HEIGHT)
            /\ \/ p[1] \in {FONT_WIDTH, WIDTH - FONT_WIDTH}
               \/ p[2] \in {FONT_HEIGHT, HEIGHT - FONT_HEIGHT}}

\* The frame, and kputs of the title in a section one row high.
Decorated ==
    LET x0 == WIDTH \div 2 - ((Len(Title) + 1) * FONT_WIDTH) \div 2
        titled[i \in 0..Len(Title)] ==
            IF i = 0 THEN [p \in Screen |-> IF p \in Frame THEN Line ELSE Blank]
            ELSE draw_char(titled[i - 1], x0 + (i - 1) * FONT_WIDTH, FONT_HEIGHT \div 2,
                           Title[i])
    IN  titled[Len(Title)]

\* The scroll of kputchar: every line of the section but the last FONT_HEIGHT
\* takes the colours FONT_HEIGHT below it, then those are cleared.  The mutated
\* form stops a line early.
scrolled_short(s) ==
    [p \in Screen |->
        IF p[1] \notin startX..(endX - 1) THEN s[p]
        ELSE IF p[2] \in startY..(endY - FONT_HEIGHT - 2) THEN s[<<p[1], p[2] + FONT_HEIGHT>>]
        ELSE IF p[2] \in (endY - FONT_HEIGHT)..(endY - 1) THEN Blank
        ELSE s[p]]
scrolled(s) ==
    [p \in Screen |->
        IF p[1] \notin startX..(endX - 1) THEN s[p]
        ELSE IF p[2] \in startY..(endY - FONT_HEIGHT - 1) THEN s[<<p[1], p[2] + FONT_HEIGHT>>]
        ELSE IF p[2] \in (endY - FONT_HEIGHT)..(endY - 1) THEN Blank
        ELSE s[p]]

-----------------------------------------------------------------------------
Init ==
    /\ initialized = FALSE /\ port = FALSE /\ serial = <<>>
    /\ screen = [p \in Screen |-> Blank]
    /\ col = 0 /\ row = 0
    /\ writer = [w \in Writers |-> Idle]
    /\ printed = [w \in Writers |-> 0] /\ log = <<>>
    /\ mixed = FALSE /\ raced = FALSE

Quiet == \A w \in Writers : writer[w].at = "idle"
At(w, at) == writer[w].at = at

\* The interrupt keeps the code it interrupts from running.
Runs(w) == w = "main" => At("sci", "idle")

\* SerialPortDriver::initialize, when the echo of the loopback test is right.
serial_initialize ==
    /\ ~initialized /\ ~port /\ printed["main"] = 0
    /\ port' = TRUE
    /\ UNCHANGED <<initialized, serial, screen, cursor, writer, ghost>>

\* kvprintf before the screen is set up: to the serial port and without a prefix.
kprintf_early(m) ==
    /\ ~initialized /\ printed["main"] < MaxPrints["main"]
    /\ serial' = IF port THEN serial \o sprintf(m.fmt) ELSE serial
    /\ log' = log \o Text(m.fmt)
    /\ printed' = [printed EXCEPT !["main"] = @ + 1]
    /\ UNCHANGED <<initialized, port, screen, cursor, writer, mixed, raced>>

\* KernelGUI::initialize.  Interrupts are still off.
KernelGUI_initialize ==
    /\ ~initialized
    /\ initialized' = TRUE /\ serial' = <<>>
    /\ screen' = Decorated
    /\ col' = 0 /\ row' = 0
    /\ log' = <<>> /\ printed' = [printed EXCEPT !["main"] = 0]
    /\ UNCHANGED <<port, writer, mixed, raced>>

\* kvprintf on the screen: the prefix, then the items, one kputchar after the other.
prefixed(m) == Prefix[m.type] \o sprintf(m.fmt)

kprintf(w, m) ==
    /\ initialized /\ At(w, "idle") /\ Runs(w) /\ printed[w] < MaxPrints[w]
    /\ w = "main" => At("ap", "idle")
    /\ w = "ap" => At("main", "idle")
    /\ writer' = [writer EXCEPT ![w] = Printing(prefixed(m))]
    /\ mixed' = (mixed \/ ~Quiet)
    /\ raced' = (raced \/ (w # "main" /\ \E v \in {"ap", "sci"} \ {w} : ~At(v, "idle")))
    /\ log' = IF mixed' THEN <<>> ELSE log \o Prefix[m.type] \o Text(m.fmt)
    /\ printed' = [printed EXCEPT ![w] = @ + 1]
    /\ UNCHANGED <<setup, screen, cursor>>

-----------------------------------------------------------------------------
(* kputchar, access by access.  A register holds what a ++ has loaded; a    *)
(* test after a ++ may read the register or the memory again.               *)

Goes(w, at) == writer' = [writer EXCEPT ![w].at = at]
NextChar(w) == writer' = [writer EXCEPT ![w] = Printing(Tail(writer[w].text))]

start_char(w) ==
    /\ At(w, "char")
    /\ \/ /\ Head(writer[w].text) = Newline
          /\ col' = 0
          /\ Goes(w, "row")
       \/ /\ Head(writer[w].text) # Newline
          /\ writer' = [writer EXCEPT ![w].at = "draw",
                            ![w].px = startX + col * FONT_WIDTH,
                            ![w].py = startY + row * FONT_HEIGHT]
          /\ UNCHANGED col
    /\ UNCHANGED <<setup, screen, row, ghost>>

draw(w) ==
    /\ At(w, "draw")
    /\ screen' = draw_char(screen, writer[w].px, writer[w].py, Head(writer[w].text))
    /\ writer' = [writer EXCEPT ![w].at = "col", ![w].px = 0, ![w].py = 0]
    /\ UNCHANGED <<setup, cursor, ghost>>

load_col(w) ==
    /\ At(w, "col")
    /\ writer' = [writer EXCEPT ![w].at = "store_col", ![w].reg = col + 1]
    /\ UNCHANGED <<setup, screen, cursor, ghost>>

store_col(w) ==
    /\ At(w, "store_col")
    /\ col' = writer[w].reg
    /\ Goes(w, "wrap")
    /\ UNCHANGED <<setup, screen, row, ghost>>

\* Does a column lie beyond the section?  The mutated form is off by one.
past_col_late(c) == c > max_cols
past_col(c) == c >= max_cols

wrap(w) ==
    /\ At(w, "wrap")
    /\ \E seen \in {col, writer[w].reg} :
        \/ /\ past_col(seen)
           /\ col' = 0
           /\ writer' = [writer EXCEPT ![w].at = "row", ![w].reg = 0]
        \/ /\ ~past_col(seen)
           /\ writer' = [writer EXCEPT ![w].at = "check", ![w].reg = 0]
           /\ UNCHANGED col
    /\ UNCHANGED <<setup, screen, row, ghost>>

load_row(w) ==
    /\ At(w, "row")
    /\ writer' = [writer EXCEPT ![w].at = "store_row", ![w].reg = row + 1]
    /\ UNCHANGED <<setup, screen, cursor, ghost>>

store_row(w) ==
    /\ At(w, "store_row")
    /\ row' = writer[w].reg
    /\ writer' = [writer EXCEPT ![w].at = "check", ![w].own = TRUE]
    /\ UNCHANGED <<setup, screen, col, ghost>>

check_row(w) ==
    /\ At(w, "check")
    /\ \E seen \in {row} \cup {r \in {writer[w].reg} : writer[w].own} :
        \/ /\ seen >= max_rows
           /\ writer' = [writer EXCEPT ![w].at = "scroll", ![w].reg = 0, ![w].own = FALSE]
        \/ seen < max_rows /\ NextChar(w)
    /\ UNCHANGED <<setup, screen, cursor, ghost>>

scroll(w) ==
    /\ At(w, "scroll")
    /\ screen' = scrolled(screen)
    /\ Goes(w, "settle")
    /\ UNCHANGED <<setup, cursor, ghost>>

\* The row the cursor is put back to; the mutated form leaves it where it is.
last_row_kept(r) == r
last_row(r) == max_rows - 1

settle(w) ==
    /\ At(w, "settle")
    /\ row' = last_row(row)
    /\ NextChar(w)
    /\ UNCHANGED <<setup, screen, col, ghost>>

kputchar(w) ==
    \/ start_char(w) \/ draw(w) \/ load_col(w) \/ store_col(w) \/ wrap(w)
    \/ load_row(w) \/ store_row(w) \/ check_row(w) \/ scroll(w) \/ settle(w)

Next ==
    \/ serial_initialize \/ KernelGUI_initialize
    \/ \E m \in Early : kprintf_early(m)
    \/ \E w \in Writers : Runs(w) /\ kputchar(w)
    \/ \E w \in Writers : \E m \in Messages[w] : kprintf(w, m)

Spec == Init /\ [][Next]_vars

-----------------------------------------------------------------------------
(* Properties.                                                              *)

TypeOK ==
    /\ initialized \in BOOLEAN /\ port \in BOOLEAN /\ mixed \in BOOLEAN
    /\ DOMAIN screen = Screen
    /\ col \in Nat /\ row \in Nat
    /\ \A w \in Writers : /\ writer[w].at \in {"idle", "char", "draw", "col", "store_col", "wrap",
                                               "row", "store_row", "check", "scroll", "settle"}
                          /\ writer[w].reg \in Nat

\* The rows of a text on a page of max_cols columns without an end: a row ends
\* at a newline or when it is full.
Longer(rows, c) == [rows EXCEPT ![Len(rows)] = Append(@, c)]
NextRow(rows, c) ==
    IF c = Newline THEN Append(rows, <<>>)
    ELSE IF Len(Last(Longer(rows, c))) = max_cols THEN Append(Longer(rows, c), <<>>)
    ELSE Longer(rows, c)
Rows(text) ==
    LET rows[n \in 0..Len(text)] ==
            IF n = 0 THEN <<<<>>>> ELSE NextRow(rows[n - 1], text[n])
    IN  rows[Len(text)]

\* The colour a pixel of the section has when the last rows of a page show.
Colour(rows, p) ==
    LET first == IF Len(rows) > max_rows THEN Len(rows) - max_rows ELSE 0
        r == first + (p[2] - startY) \div FONT_HEIGHT + 1
        c == (p[1] - startX) \div FONT_WIDTH + 1
    IN  IF r > Len(rows) \/ r - first > max_rows THEN Blank
        ELSE IF c > Len(rows[r]) THEN Blank
        ELSE IF rows[r][c] \in Unprintable THEN Blank
        ELSE Glyph(rows[r][c], (p[1] - startX) % FONT_WIDTH, (p[2] - startY) % FONT_HEIGHT)

Section == (startX..(endX - 1)) \X (startY..(endY - 1))

\* As long as no two prints have overlapped, the section shows the last rows of
\* the text the formats mean, with every number in positional notation, and
\* before the screen is set up the serial port has sent it: kvprintf, utoa, the
\* wrap and the scroll of kputchar together.
TextExact ==
    IF initialized
    THEN Quiet /\ ~mixed => LET rows == Rows(log)
                            IN  \A p \in Section : screen[p] = Colour(rows, p)
    ELSE port => serial = log

\* No glyph has landed on the frame or the title, and none ever did.
FrameKept ==
    initialized =>
        \A p \in Screen :
            \/ p[1] \in startX..(endX + FONT_WIDTH - 1) /\ p[2] \in startY..(endY + FONT_HEIGHT - 1)
            \/ screen[p] = Decorated[p]

\* Whatever a print in the interrupt does to the print it interrupts, no glyph
\* lands on the frame or the title: the cursor is never more than one column and
\* one row outside the section when it is drawn at (kernel_ui.cpp 58-66).  When
\* the interrupt and an application processor print at once this is not so.
FrameIntact == ~raced => FrameKept

\* When nobody prints the cursor is inside the section, however the prints before
\* have raced for it: every store to it is followed by a test of the writer who
\* made it (kernel_ui.cpp 65-71, 76-101).
CursorSettles == Quiet => col < max_cols /\ row < max_rows

=============================================================================
