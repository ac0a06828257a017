---------------------------- MODULE ConsoleProofs ----------------------------
(***************************************************************************)
(* For every screen and font, whatever is printed: when nobody prints the  *)
(* cursor is in the section; as long as no two processors have printed at  *)
(* once no glyph lands on the frame or the title; and as long as no two    *)
(* prints have overlapped the section shows the last rows of the text that *)
(* the formats and their arguments mean.                                   *)
(***************************************************************************)
EXTENDS Console, SequenceTheorems, WellFoundedInduction, TLAPS

Places == {"idle", "char", "draw", "col", "store_col", "wrap",
           "row", "store_row", "check", "scroll", "settle"}
FieldNames == {"at", "text", "px", "py", "reg", "own"}

\* Of the screen nothing is needed but the pixels of the frame.
Types ==
    /\ initialized \in BOOLEAN /\ mixed \in BOOLEAN /\ raced \in BOOLEAN
    /\ col \in Nat /\ row \in Nat
    /\ DOMAIN writer = Writers
    /\ \A w \in Writers : /\ DOMAIN writer[w] = FieldNames
                          /\ writer[w].at \in Places /\ writer[w].reg \in Nat
                          /\ writer[w].px \in Nat /\ writer[w].py \in Nat
                          /\ writer[w].own \in BOOLEAN

\* A cursor beyond the section is watched by a writer who is about to test what
\* it has itself stored, or has done so and will put it back.
WatchesCol(w) == At(w, "wrap") /\ writer[w].reg = col
WatchesRow(w) ==
    \/ At(w, "check") /\ writer[w].own /\ writer[w].reg = row
    \/ At(w, "scroll") \/ At(w, "settle")

Watched ==
    /\ col < max_cols \/ \E w \in Writers : WatchesCol(w)
    /\ row < max_rows \/ \E w \in Writers : WatchesRow(w)

\* Without a race between processors an AP prints alone.
ApAlone == ~At("ap", "idle") => At("main", "idle") /\ At("sci", "idle")

\* What a writer outside the interrupt stores is at most one beyond the section.
StoresNear ==
    \A w \in {"main", "ap"} :
        /\ At(w, "store_col") => writer[w].reg <= max_cols
        /\ At(w, "store_row") => writer[w].reg <= max_rows

\* So the cursor is too, but for the moments the interrupt watches it.
CursorNear ==
    /\ col <= max_cols \/ WatchesCol("sci")
    /\ row <= max_rows \/ WatchesRow("sci")

\* Nobody draws farther out than that.
DrawsNear ==
    \A w \in Writers : At(w, "draw") =>
        /\ writer[w].px \in startX..(startX + max_cols * FONT_WIDTH)
        /\ writer[w].py \in startY..(startY + max_rows * FONT_HEIGHT)

Calm == ApAlone /\ StoresNear /\ CursorNear /\ DrawsNear /\ FrameKept

IInv == Types /\ Watched /\ (~raced => Calm)

-----------------------------------------------------------------------------
(* The section.                                                            *)

LEMMA CellsFit ==
    ASSUME NEW a \in Nat, NEW b \in Nat \ {0}, a >= b
    PROVE  a \div b \in Nat /\ a \div b >= 1 /\ (a \div b) * b <= a
  OBVIOUS

LEMMA SectionSize ==
    /\ startX \in Nat /\ startY \in Nat /\ endX \in Nat /\ endY \in Nat
    /\ max_cols \in Nat /\ max_cols >= 1 /\ startX + max_cols * FONT_WIDTH <= endX
    /\ max_rows \in Nat /\ max_rows >= 1 /\ startY + max_rows * FONT_HEIGHT <= endY
<1>1. /\ startX \in Nat /\ startY \in Nat /\ endX \in Nat /\ endY \in Nat
      /\ endX - startX \in Nat /\ endX - startX >= FONT_WIDTH
      /\ endY - startY \in Nat /\ endY - startY >= FONT_HEIGHT
  BY ConsoleAssumption DEF startX, startY, endX, endY
<1>2. /\ max_cols \in Nat /\ max_cols >= 1 /\ max_cols * FONT_WIDTH <= endX - startX
      /\ max_rows \in Nat /\ max_rows >= 1 /\ max_rows * FONT_HEIGHT <= endY - startY
  BY ONLY <1>1, CellsFit, ConsoleAssumption DEF max_cols, max_rows, Cells
<1>3. max_cols * FONT_WIDTH \in Nat /\ max_rows * FONT_HEIGHT \in Nat
  BY <1>2, ConsoleAssumption
<1>4. QED
  BY ONLY <1>1, <1>2, <1>3

\* Where a writer whose cursor is at most one outside the section draws.
LEMMA CellOf ==
    ASSUME NEW c \in Nat, NEW n \in Nat, c <= n, NEW size \in Nat, NEW start \in Nat
    PROVE  start + c * size \in start..(start + n * size) /\ start + c * size \in Nat
<1>1. c * size \in Nat /\ n * size \in Nat /\ c * size <= n * size
  OBVIOUS
<1>2. QED
  BY <1>1

\* A glyph drawn there stays off the frame.
LEMMA GlyphNear ==
    ASSUME FrameKept, initialized, NEW px, NEW py, NEW c,
           px \in startX..(startX + max_cols * FONT_WIDTH),
           py \in startY..(startY + max_rows * FONT_HEIGHT),
           screen' = draw_char(screen, px, py, c), initialized' = initialized
    PROVE  FrameKept'
<1> SUFFICES ASSUME NEW p \in Screen,
                    ~ (/\ p[1] \in startX..(endX + FONT_WIDTH - 1)
                       /\ p[2] \in startY..(endY + FONT_HEIGHT - 1))
             PROVE  screen'[p] = Decorated[p]
  BY DEF FrameKept
<1>1. screen[p] = Decorated[p]
  BY DEF FrameKept
<1>2. p[1] \in Int /\ p[2] \in Int /\ px \in Int /\ py \in Int
  BY SectionSize, ConsoleAssumption DEF Screen
<1>3. ~ (/\ p[1] \in px..(px + FONT_WIDTH - 1) /\ p[2] \in py..(py + FONT_HEIGHT - 1))
  <2> DEFINE right == startX + max_cols * FONT_WIDTH
             low   == startY + max_rows * FONT_HEIGHT
  <2>1. /\ px \in startX..right /\ right <= endX /\ right \in Int
        /\ py \in startY..low /\ low <= endY /\ low \in Int
    BY SectionSize, ConsoleAssumption
  <2> HIDE DEF right, low
  <2>2. /\ startX \in Int /\ endX \in Int /\ startY \in Int /\ endY \in Int
        /\ FONT_WIDTH \in Int /\ FONT_HEIGHT \in Int
    BY SectionSize, ConsoleAssumption
  <2>3. p[1] \notin startX..(endX + FONT_WIDTH - 1) \/ p[2] \notin startY..(endY + FONT_HEIGHT - 1)
    OBVIOUS
  <2>4. QED
    BY ONLY <1>2, <2>1, <2>2, <2>3
<1>4. screen'[p] = screen[p]
  BY ONLY <1>3, screen' = draw_char(screen, px, py, c), p \in Screen DEF draw_char
<1>5. QED
  BY <1>1, <1>4

LEMMA ScrollNear ==
    ASSUME FrameKept, screen' = scrolled(screen), initialized' = initialized
    PROVE  FrameKept'
<1> SUFFICES ASSUME initialized, NEW p \in Screen,
                    ~ (/\ p[1] \in startX..(endX + FONT_WIDTH - 1)
                       /\ p[2] \in startY..(endY + FONT_HEIGHT - 1))
             PROVE  screen'[p] = Decorated[p]
  BY DEF FrameKept
<1>1. screen[p] = Decorated[p]
  BY DEF FrameKept
<1>2. p[1] \in Int /\ p[2] \in Int
  BY ConsoleAssumption DEF Screen
<1>3. p[1] \notin startX..(endX - 1) \/ p[2] \notin startY..(endY - 1)
  BY <1>2, SectionSize, ConsoleAssumption
<1>4. endY - FONT_HEIGHT - 1 <= endY - 1 /\ startY <= endY - FONT_HEIGHT
  BY ConsoleAssumption DEF startY, endY
<1>5. screen'[p] = screen[p]
  BY ONLY <1>2, <1>3, <1>4, SectionSize, ConsoleAssumption, screen' = scrolled(screen),
          p \in Screen
     DEF scrolled
<1>6. QED
  BY <1>1, <1>5

\* The section does not move.
LEMMA SectionStays ==
    /\ startX' = startX /\ startY' = startY /\ endX' = endX /\ endY' = endY
    /\ max_cols' = max_cols /\ max_rows' = max_rows
  BY DEF startX, startY, max_cols, max_rows, Cells, endX, endY

-----------------------------------------------------------------------------
(* One step of kputchar.                                                   *)

\* Without a race, whoever may run prints alone, the interrupt aside.
LEMMA PrintsAlone ==
    ASSUME Types, ApAlone, NEW w \in Writers, Runs(w), ~At(w, "idle")
    PROVE  /\ w # "sci" => \A v \in Writers \ {w} : At(v, "idle")
           /\ w # "ap" => At("ap", "idle")
  BY DEF ApAlone, Runs, Writers, At

\* What a step of w has to show.
Moves(w) ==
    /\ \A v \in Writers \ {w} : writer'[v] = writer[v]
    /\ raced' = raced /\ initialized' = initialized

NearStep(w) ==
    /\ w # "sci" => /\ writer'[w].at = "store_col" => writer'[w].reg <= max_cols
                    /\ writer'[w].at = "store_row" => writer'[w].reg <= max_rows
    /\ writer'[w].at = "draw" =>
          /\ writer'[w].px \in startX..(startX + max_cols * FONT_WIDTH)
          /\ writer'[w].py \in startY..(startY + max_rows * FONT_HEIGHT)

LEMMA Step ==
    ASSUME IInv, NEW w \in Writers, Runs(w), ~At(w, "idle"), Moves(w),
           Types', Watched', ~raced => NearStep(w) /\ CursorNear' /\ FrameKept'
    PROVE  IInv'
<1> SUFFICES ASSUME ~raced PROVE Calm'
  BY DEF IInv, Moves
<1>1. Calm /\ Types
  BY DEF IInv
<1>2. \A v \in Writers \ {w} : writer'[v] = writer[v]
  BY DEF Moves
<1>3. ApAlone'
  BY <1>1, <1>2, PrintsAlone DEF Calm, ApAlone, At, Writers
<1>4. StoresNear'
  BY <1>1, <1>2, SectionStays DEF Calm, StoresNear, NearStep, At, Writers
<1>5. DrawsNear'
  BY <1>1, <1>2, SectionStays DEF Calm, DrawsNear, NearStep, At
<1>6. QED
  BY <1>3, <1>4, <1>5 DEF Calm

\* A step that leaves the screen alone keeps the frame.
LEMMA ScreenKept ==
    ASSUME FrameKept, UNCHANGED <<screen, initialized>>
    PROVE  FrameKept'
  BY DEF FrameKept

\* The types after a step of w.
LEMMA TypesStep ==
    ASSUME Types, NEW w \in Writers, Moves(w), UNCHANGED setup,
           DOMAIN writer' = Writers,
           col' \in Nat, row' \in Nat, mixed' = mixed,
           DOMAIN (writer'[w]) = FieldNames, writer'[w].at \in Places,
           writer'[w].reg \in Nat, writer'[w].px \in Nat, writer'[w].py \in Nat,
           writer'[w].own \in BOOLEAN
    PROVE  Types'
  BY DEF Types, Moves, setup

-----------------------------------------------------------------------------
(* The steps of kputchar, one by one.                                      *)

LEMMA StartChar ==
    ASSUME IInv, NEW w \in Writers, Runs(w), start_char(w)
    PROVE  IInv'
<1>1. Types /\ Watched /\ DOMAIN writer[w] = FieldNames /\ At(w, "char")
  BY DEF IInv, Types, start_char
<1>2. /\ Moves(w) /\ UNCHANGED setup /\ row' = row /\ screen' = screen /\ mixed' = mixed
      /\ DOMAIN writer' = Writers /\ DOMAIN (writer'[w]) = FieldNames
      /\ writer'[w].reg = writer[w].reg /\ writer'[w].own = writer[w].own
  BY <1>1 DEF start_char, Goes, Moves, Types, ghost, setup, FieldNames
<1>3. \/ /\ writer'[w].at = "row" /\ col' = 0
         /\ writer'[w].px = writer[w].px /\ writer'[w].py = writer[w].py
      \/ /\ writer'[w].at = "draw" /\ col' = col
         /\ writer'[w].px = startX + col * FONT_WIDTH
         /\ writer'[w].py = startY + row * FONT_HEIGHT
  BY <1>1 DEF start_char, Goes, Types, FieldNames
<1>4. startX + col * FONT_WIDTH \in Nat /\ startY + row * FONT_HEIGHT \in Nat
  <2>1. /\ col \in Nat /\ row \in Nat /\ startX \in Nat /\ startY \in Nat
        /\ FONT_WIDTH \in Nat /\ FONT_HEIGHT \in Nat /\ col <= col /\ row <= row
    BY <1>1, SectionSize, ConsoleAssumption DEF Types
  <2>2. QED
    BY ONLY <2>1, CellOf
<1>5. Types'
  BY <1>1, <1>2, <1>3, <1>4, TypesStep DEF Types, Places
<1>6. Watched'
  BY <1>1, <1>2, <1>3, SectionStays, SectionSize
     DEF Watched, WatchesCol, WatchesRow, At, Moves, Types
<1>7. ASSUME ~raced PROVE NearStep(w) /\ CursorNear' /\ FrameKept'
  <2>1. Calm
    BY <1>7 DEF IInv
  <2>2. CursorNear'
    BY <1>1, <1>2, <1>3, <2>1, SectionStays, SectionSize
       DEF Calm, CursorNear, WatchesCol, WatchesRow, At, Moves, Writers
  <2>3. FrameKept'
    BY <1>2, <2>1, ScreenKept DEF Calm, Moves
  <2>4. writer'[w].at = "draw" => col <= max_cols /\ row <= max_rows
    BY <1>1, <2>1, PrintsAlone DEF Calm, CursorNear, WatchesCol, WatchesRow, At, Writers
  <2>5. NearStep(w)
    <3>1. CASE writer'[w].at = "draw"
      <4>1. /\ col \in Nat /\ row \in Nat /\ startX \in Nat /\ startY \in Nat
            /\ max_cols \in Nat /\ max_rows \in Nat
            /\ FONT_WIDTH \in Nat /\ FONT_HEIGHT \in Nat
        BY <1>1, SectionSize, ConsoleAssumption DEF Types
      <4>2. /\ startX + col * FONT_WIDTH \in startX..(startX + max_cols * FONT_WIDTH)
            /\ startY + row * FONT_HEIGHT \in startY..(startY + max_rows * FONT_HEIGHT)
        BY ONLY <2>4, <3>1, <4>1, CellOf
      <4>3. QED
        BY ONLY <1>3, <3>1, <4>2 DEF NearStep
    <3>2. CASE writer'[w].at = "row"
      BY <3>2 DEF NearStep
    <3>3. QED
      BY <1>3, <3>1, <3>2
  <2>6. QED
    BY <2>2, <2>3, <2>5
<1>8. QED
  BY <1>1, <1>2, <1>5, <1>6, <1>7, Step DEF At

LEMMA Draw ==
    ASSUME IInv, NEW w \in Writers, Runs(w), draw(w)
    PROVE  IInv'
<1>1. Types /\ Watched /\ DOMAIN writer[w] = FieldNames /\ At(w, "draw")
  BY DEF IInv, Types, draw
<1>2. /\ Moves(w) /\ UNCHANGED setup /\ row' = row /\ col' = col /\ mixed' = mixed
      /\ DOMAIN writer' = Writers /\ DOMAIN (writer'[w]) = FieldNames
      /\ writer'[w].reg = writer[w].reg /\ writer'[w].own = writer[w].own
      /\ writer'[w].at = "col" /\ writer'[w].px = 0 /\ writer'[w].py = 0
  BY <1>1 DEF draw, Moves, Types, ghost, setup, cursor, FieldNames
<1>3. screen' = draw_char(screen, writer[w].px, writer[w].py, Head(writer[w].text))
  BY DEF draw
<1>4. Types'
  BY <1>1, <1>2, TypesStep DEF Types, Places
<1>5. Watched'
  BY <1>1, <1>2, SectionStays DEF Watched, WatchesCol, WatchesRow, At, Moves
<1>6. ASSUME ~raced PROVE NearStep(w) /\ CursorNear' /\ FrameKept'
  <2>1. Calm
    BY <1>6 DEF IInv
  <2>2. CursorNear'
    BY <1>1, <1>2, <2>1, SectionStays
       DEF Calm, CursorNear, WatchesCol, WatchesRow, At, Moves, Writers
  <2>3. /\ writer[w].px \in startX..(startX + max_cols * FONT_WIDTH)
        /\ writer[w].py \in startY..(startY + max_rows * FONT_HEIGHT)
    BY <1>1, <2>1 DEF Calm, DrawsNear
  <2>4. FrameKept'
    <3>1. CASE initialized
      BY <1>2, <1>3, <2>1, <2>3, <3>1, GlyphNear DEF Calm, Moves
    <3>2. CASE ~initialized
      BY <1>2, <3>2 DEF Moves, FrameKept
    <3>3. QED
      BY <3>1, <3>2
  <2>5. QED
    BY <1>2, <2>2, <2>4 DEF NearStep
<1>7. QED
  BY <1>1, <1>2, <1>4, <1>5, <1>6, Step DEF At

LEMMA LoadCol ==
    ASSUME IInv, NEW w \in Writers, Runs(w), load_col(w)
    PROVE  IInv'
<1>1. Types /\ Watched /\ DOMAIN writer[w] = FieldNames /\ At(w, "col")
  BY DEF IInv, Types, load_col
<1>2. /\ Moves(w) /\ UNCHANGED <<setup, screen>> /\ row' = row /\ col' = col
      /\ mixed' = mixed
      /\ DOMAIN writer' = Writers /\ DOMAIN (writer'[w]) = FieldNames
      /\ writer'[w].at = "store_col" /\ writer'[w].reg = col + 1
      /\ writer'[w].px = writer[w].px /\ writer'[w].py = writer[w].py
      /\ writer'[w].own = writer[w].own
  BY <1>1 DEF load_col, Moves, Types, ghost, setup, cursor, FieldNames
<1>3. Types'
  BY <1>1, <1>2, TypesStep DEF Types, Places
<1>4. Watched'
  BY <1>1, <1>2, SectionStays DEF Watched, WatchesCol, WatchesRow, At, Moves
<1>5. ASSUME ~raced PROVE NearStep(w) /\ CursorNear' /\ FrameKept'
  <2>1. Calm
    BY <1>5 DEF IInv
  <2>2. CursorNear' /\ FrameKept'
    BY <1>1, <1>2, <2>1, SectionStays, ScreenKept
       DEF Calm, CursorNear, WatchesCol, WatchesRow, At, Moves, Writers
  <2>3. w # "sci" => col < max_cols
    BY <1>1, <2>1, PrintsAlone DEF Calm, Watched, WatchesCol, At
  <2>4. QED
    BY <1>1, <1>2, <2>2, <2>3, SectionSize DEF NearStep, Types
<1>6. QED
  BY <1>1, <1>2, <1>3, <1>4, <1>5, Step DEF At

LEMMA StoreCol ==
    ASSUME IInv, NEW w \in Writers, Runs(w), store_col(w)
    PROVE  IInv'
<1>1. Types /\ Watched /\ DOMAIN writer[w] = FieldNames /\ At(w, "store_col")
  BY DEF IInv, Types, store_col
<1>2. /\ Moves(w) /\ UNCHANGED <<setup, screen>> /\ row' = row /\ col' = writer[w].reg
      /\ mixed' = mixed
      /\ DOMAIN writer' = Writers /\ DOMAIN (writer'[w]) = FieldNames
      /\ writer'[w].at = "wrap" /\ writer'[w].reg = writer[w].reg
      /\ writer'[w].px = writer[w].px /\ writer'[w].py = writer[w].py
      /\ writer'[w].own = writer[w].own
  BY <1>1 DEF store_col, Goes, Moves, Types, ghost, setup, FieldNames
<1>3. Types'
  BY <1>1, <1>2, TypesStep DEF Types, Places
<1>4. Watched'
  BY <1>1, <1>2, SectionStays DEF Watched, WatchesCol, WatchesRow, At, Moves
<1>5. ASSUME ~raced PROVE NearStep(w) /\ CursorNear' /\ FrameKept'
  <2>1. Calm
    BY <1>5 DEF IInv
  <2>2. w # "sci" => writer[w].reg <= max_cols
    BY <1>1, <2>1 DEF Calm, StoresNear, Writers
  <2>3. CursorNear' /\ FrameKept'
    BY <1>1, <1>2, <2>1, <2>2, SectionStays, ScreenKept
       DEF Calm, CursorNear, WatchesCol, WatchesRow, At, Moves, Writers
  <2>4. QED
    BY <1>2, <2>3 DEF NearStep
<1>6. QED
  BY <1>1, <1>2, <1>3, <1>4, <1>5, Step DEF At

LEMMA Wrap ==
    ASSUME IInv, NEW w \in Writers, Runs(w), wrap(w)
    PROVE  IInv'
<1>1. Types /\ Watched /\ DOMAIN writer[w] = FieldNames /\ At(w, "wrap")
  BY DEF IInv, Types, wrap
<1>2. /\ Moves(w) /\ UNCHANGED <<setup, screen>> /\ row' = row /\ mixed' = mixed
      /\ DOMAIN writer' = Writers /\ DOMAIN (writer'[w]) = FieldNames
      /\ writer'[w].reg = 0 /\ writer'[w].at \in {"row", "check"}
      /\ writer'[w].px = writer[w].px /\ writer'[w].py = writer[w].py
      /\ writer'[w].own = writer[w].own
  BY <1>1 DEF wrap, Moves, Types, ghost, setup, FieldNames
<1>3. col' = 0 \/ (col' = col /\ (col < max_cols \/ writer[w].reg < max_cols))
  BY <1>1, SectionSize DEF wrap, past_col, Types
<1>4. Types'
  BY <1>1, <1>2, <1>3, TypesStep DEF Types, Places
<1>5. Watched'
  BY <1>1, <1>2, <1>3, SectionStays, SectionSize
     DEF Watched, WatchesCol, WatchesRow, At, Moves, Types
<1>6. ASSUME ~raced PROVE NearStep(w) /\ CursorNear' /\ FrameKept'
  <2>1. Calm
    BY <1>6 DEF IInv
  <2>2. CursorNear' /\ FrameKept'
    BY <1>1, <1>2, <1>3, <2>1, SectionStays, SectionSize, ScreenKept
       DEF Calm, CursorNear, WatchesCol, WatchesRow, At, Moves, Writers, Types
  <2>3. QED
    BY <1>2, <2>2 DEF NearStep
<1>7. QED
  BY <1>1, <1>2, <1>4, <1>5, <1>6, Step DEF At

LEMMA LoadRow ==
    ASSUME IInv, NEW w \in Writers, Runs(w), load_row(w)
    PROVE  IInv'
<1>1. Types /\ Watched /\ DOMAIN writer[w] = FieldNames /\ At(w, "row")
  BY DEF IInv, Types, load_row
<1>2. /\ Moves(w) /\ UNCHANGED <<setup, screen>> /\ row' = row /\ col' = col
      /\ mixed' = mixed
      /\ DOMAIN writer' = Writers /\ DOMAIN (writer'[w]) = FieldNames
      /\ writer'[w].at = "store_row" /\ writer'[w].reg = row + 1
      /\ writer'[w].px = writer[w].px /\ writer'[w].py = writer[w].py
      /\ writer'[w].own = writer[w].own
  BY <1>1 DEF load_row, Moves, Types, ghost, setup, cursor, FieldNames
<1>3. Types'
  BY <1>1, <1>2, TypesStep DEF Types, Places
<1>4. Watched'
  BY <1>1, <1>2, SectionStays DEF Watched, WatchesCol, WatchesRow, At, Moves
<1>5. ASSUME ~raced PROVE NearStep(w) /\ CursorNear' /\ FrameKept'
  <2>1. Calm
    BY <1>5 DEF IInv
  <2>2. CursorNear' /\ FrameKept'
    BY <1>1, <1>2, <2>1, SectionStays, ScreenKept
       DEF Calm, CursorNear, WatchesCol, WatchesRow, At, Moves, Writers
  <2>3. w # "sci" => row < max_rows
    BY <1>1, <2>1, PrintsAlone DEF Calm, Watched, WatchesRow, At
  <2>4. QED
    BY <1>1, <1>2, <2>2, <2>3, SectionSize DEF NearStep, Types
<1>6. QED
  BY <1>1, <1>2, <1>3, <1>4, <1>5, Step DEF At

LEMMA StoreRow ==
    ASSUME IInv, NEW w \in Writers, Runs(w), store_row(w)
    PROVE  IInv'
<1>1. Types /\ Watched /\ DOMAIN writer[w] = FieldNames /\ At(w, "store_row")
  BY DEF IInv, Types, store_row
<1>2. /\ Moves(w) /\ UNCHANGED <<setup, screen>> /\ row' = writer[w].reg /\ col' = col
      /\ mixed' = mixed
      /\ DOMAIN writer' = Writers /\ DOMAIN (writer'[w]) = FieldNames
      /\ writer'[w].at = "check" /\ writer'[w].reg = writer[w].reg
      /\ writer'[w].px = writer[w].px /\ writer'[w].py = writer[w].py
      /\ writer'[w].own = TRUE
  BY <1>1 DEF store_row, Moves, Types, ghost, setup, FieldNames
<1>3. Types'
  BY <1>1, <1>2, TypesStep DEF Types, Places
<1>4. Watched'
  BY <1>1, <1>2, SectionStays DEF Watched, WatchesCol, WatchesRow, At, Moves
<1>5. ASSUME ~raced PROVE NearStep(w) /\ CursorNear' /\ FrameKept'
  <2>1. Calm
    BY <1>5 DEF IInv
  <2>2. w # "sci" => writer[w].reg <= max_rows
    BY <1>1, <2>1 DEF Calm, StoresNear, Writers
  <2>3. CursorNear' /\ FrameKept'
    BY <1>1, <1>2, <2>1, <2>2, SectionStays, ScreenKept
       DEF Calm, CursorNear, WatchesCol, WatchesRow, At, Moves, Writers
  <2>4. QED
    BY <1>2, <2>3 DEF NearStep
<1>6. QED
  BY <1>1, <1>2, <1>3, <1>4, <1>5, Step DEF At

\* kputchar returns: the next character, or the end of the print.
Returned(w) ==
    /\ DOMAIN writer' = Writers /\ DOMAIN (writer'[w]) = FieldNames
    /\ \A v \in Writers \ {w} : writer'[v] = writer[v]
    /\ writer'[w].at \in {"idle", "char"}
    /\ writer'[w].reg = 0 /\ writer'[w].px = 0 /\ writer'[w].py = 0
    /\ writer'[w].own = FALSE

LEMMA PrintingIs ==
    ASSUME NEW text
    PROVE  /\ DOMAIN Printing(text) = FieldNames /\ Printing(text).at \in {"idle", "char"}
           /\ Printing(text).reg = 0 /\ Printing(text).px = 0 /\ Printing(text).py = 0
           /\ Printing(text).own = FALSE
  BY DEF Printing, Idle, FieldNames

LEMMA Returns ==
    ASSUME Types, NEW w \in Writers, NextChar(w)
    PROVE  Returned(w)
<1>1. PICK rest : rest = Tail(writer[w].text)
  OBVIOUS
<1>2. writer' = [writer EXCEPT ![w] = Printing(rest)]
  BY <1>1 DEF NextChar
<1>3. QED
  BY <1>2, PrintingIs DEF Types, Returned

LEMMA CheckRow ==
    ASSUME IInv, NEW w \in Writers, Runs(w), check_row(w)
    PROVE  IInv'
<1>1. Types /\ Watched /\ DOMAIN writer[w] = FieldNames /\ At(w, "check")
  BY DEF IInv, Types, check_row
<1>2. /\ UNCHANGED <<setup, screen, mixed, raced>> /\ row' = row /\ col' = col
  BY DEF check_row, cursor, ghost
<1>3. PICK seen \in {row} \cup {r \in {writer[w].reg} : writer[w].own} :
        \/ /\ seen >= max_rows
           /\ writer' = [writer EXCEPT ![w].at = "scroll", ![w].reg = 0, ![w].own = FALSE]
        \/ seen < max_rows /\ NextChar(w)
  BY DEF check_row
<1>4. /\ Moves(w) /\ DOMAIN writer' = Writers /\ DOMAIN (writer'[w]) = FieldNames
      /\ writer'[w].at \in {"scroll", "idle", "char"}
      /\ writer'[w].reg = 0 /\ writer'[w].own = FALSE
      /\ writer'[w].px \in Nat /\ writer'[w].py \in Nat
      /\ writer'[w].at = "scroll" \/ seen < max_rows
  <2>1. CASE NextChar(w) /\ seen < max_rows
    <3>1. Returned(w)
      BY <1>1, <2>1, Returns
    <3>2. QED
      BY ONLY <1>2, <2>1, <3>1 DEF Moves, setup, Returned
  <2>2. CASE writer' = [writer EXCEPT ![w].at = "scroll", ![w].reg = 0, ![w].own = FALSE]
    BY <1>1, <1>2, <2>2 DEF Moves, setup, Types, FieldNames
  <2>3. QED
    BY <1>3, <2>1, <2>2
<1>5. Types'
  <2>1. /\ UNCHANGED setup /\ mixed' = mixed
        /\ col' \in Nat /\ row' \in Nat /\ writer'[w].reg \in Nat
        /\ writer'[w].at \in Places
    BY <1>1, <1>2, <1>4 DEF Types, Places
  <2>2. QED
    BY <1>1, <1>4, <2>1, TypesStep
<1>6. WatchesRow(w) => row < max_rows \/ writer'[w].at = "scroll"
  BY <1>1, <1>3, <1>4 DEF WatchesRow, At
<1>7. Watched'
  BY <1>1, <1>2, <1>4, <1>6, SectionStays DEF Watched, WatchesCol, WatchesRow, At, Moves
<1>8. ASSUME ~raced PROVE NearStep(w) /\ CursorNear' /\ FrameKept'
  <2>1. Calm
    BY <1>8 DEF IInv
  <2>2. FrameKept'
    BY <1>2, <2>1, ScreenKept DEF Calm, setup
  <2>3. CursorNear'
    BY <1>1, <1>2, <1>4, <1>6, <2>1, SectionStays, SectionSize
       DEF Calm, CursorNear, WatchesCol, WatchesRow, At, Moves, Writers, Types
  <2>4. QED
    BY <1>4, <2>2, <2>3 DEF NearStep
<1>9. QED
  BY <1>1, <1>4, <1>5, <1>7, <1>8, Step DEF At

LEMMA Scroll ==
    ASSUME IInv, NEW w \in Writers, Runs(w), scroll(w)
    PROVE  IInv'
<1>1. Types /\ Watched /\ DOMAIN writer[w] = FieldNames /\ At(w, "scroll")
  BY DEF IInv, Types, scroll
<1>2. /\ Moves(w) /\ UNCHANGED setup /\ row' = row /\ col' = col /\ mixed' = mixed
      /\ DOMAIN writer' = Writers /\ DOMAIN (writer'[w]) = FieldNames
      /\ writer'[w].at = "settle" /\ writer'[w].reg = writer[w].reg
      /\ writer'[w].px = writer[w].px /\ writer'[w].py = writer[w].py
      /\ writer'[w].own = writer[w].own
  BY <1>1 DEF scroll, Goes, Moves, Types, ghost, setup, cursor, FieldNames
<1>3. screen' = scrolled(screen)
  BY DEF scroll
<1>4. Types'
  BY <1>1, <1>2, <1>3, TypesStep DEF Types, Places
<1>5. Watched'
  BY <1>1, <1>2, SectionStays DEF Watched, WatchesCol, WatchesRow, At, Moves
<1>6. ASSUME ~raced PROVE NearStep(w) /\ CursorNear' /\ FrameKept'
  <2>1. Calm
    BY <1>6 DEF IInv
  <2>2. CursorNear'
    BY <1>1, <1>2, <2>1, SectionStays
       DEF Calm, CursorNear, WatchesCol, WatchesRow, At, Moves, Writers
  <2>3. QED
    BY <1>2, <1>3, <2>1, <2>2, ScrollNear DEF Calm, NearStep, Moves
<1>7. QED
  BY <1>1, <1>2, <1>4, <1>5, <1>6, Step DEF At

LEMMA Settle ==
    ASSUME IInv, NEW w \in Writers, Runs(w), settle(w)
    PROVE  IInv'
<1>1. Types /\ Watched /\ At(w, "settle") /\ Returned(w)
  BY Returns DEF IInv, settle
<1>2. /\ UNCHANGED <<setup, screen, mixed, raced>> /\ col' = col
      /\ row' = max_rows - 1 /\ row' \in Nat /\ row' < max_rows
  BY SectionSize DEF settle, ghost, last_row
<1>3. Moves(w)
  BY <1>1, <1>2 DEF Moves, setup, Returned
<1>4. Types'
  <2>1. /\ UNCHANGED setup /\ mixed' = mixed
        /\ col' \in Nat /\ row' \in Nat /\ writer'[w].reg \in Nat
        /\ writer'[w].px \in Nat /\ writer'[w].py \in Nat
        /\ writer'[w].at \in Places /\ writer'[w].own = FALSE
        /\ DOMAIN writer' = Writers /\ DOMAIN (writer'[w]) = FieldNames
    BY <1>1, <1>2 DEF Types, Places, Returned
  <2>2. QED
    BY <1>1, <1>3, <2>1, TypesStep
<1>5. Watched'
  BY <1>1, <1>2, <1>3, SectionStays DEF Watched, WatchesCol, At, Moves
<1>6. ASSUME ~raced PROVE NearStep(w) /\ CursorNear' /\ FrameKept'
  <2>1. Calm
    BY <1>6 DEF IInv
  <2>2. CursorNear'
    BY <1>1, <1>2, <1>3, <2>1, SectionStays, SectionSize
       DEF Calm, CursorNear, WatchesCol, At, Moves, Writers
  <2>3. NearStep(w)
    BY <1>1 DEF NearStep, Returned
  <2>4. QED
    BY <1>2, <2>1, <2>2, <2>3, ScreenKept DEF Calm, setup
<1>7. QED
  BY <1>1, <1>3, <1>4, <1>5, <1>6, Step DEF At

-----------------------------------------------------------------------------
(* The other actions.                                                      *)

\* A print begins: its writer was idle.
LEMMA Begins ==
    ASSUME IInv, NEW w \in Writers, NEW m \in Messages[w], kprintf(w, m)
    PROVE  IInv'
<1>1. Types /\ Watched /\ At(w, "idle") /\ Runs(w) /\ (w = "main" => At("ap", "idle"))
      /\ (w = "ap" => At("main", "idle"))
  BY DEF IInv, kprintf
<1>2. /\ DOMAIN writer' = Writers /\ DOMAIN (writer'[w]) = FieldNames
      /\ \A v \in Writers \ {w} : writer'[v] = writer[v]
      /\ writer'[w].at \in {"idle", "char"}
      /\ writer'[w].reg = 0 /\ writer'[w].own \in BOOLEAN
      /\ writer'[w].px = 0 /\ writer'[w].py = 0
  <2>1. PICK text : text = prefixed(m)
    OBVIOUS
  <2>2. writer' = [writer EXCEPT ![w] = Printing(text)]
    BY <2>1 DEF kprintf
  <2>3. QED
    BY <1>1, <2>2, PrintingIs DEF Types
<1>3. UNCHANGED <<setup, screen, cursor>>
  BY DEF kprintf
<1>4. /\ mixed' = (mixed \/ ~Quiet)
      /\ raced' = (raced \/ (w # "main" /\ \E v \in {"ap", "sci"} \ {w} : ~At(v, "idle")))
  BY DEF kprintf
<1>5. Types'
  <2>1. mixed' \in BOOLEAN /\ raced' \in BOOLEAN
    BY <1>4, Zenon
  <2>2. /\ initialized' \in BOOLEAN /\ col' \in Nat /\ row' \in Nat
    BY <1>1, <1>3 DEF Types, setup, cursor
  <2>3. \A v \in Writers :
          /\ DOMAIN (writer'[v]) = FieldNames
          /\ writer'[v].at \in Places /\ writer'[v].reg \in Nat
          /\ writer'[v].px \in Nat /\ writer'[v].py \in Nat
          /\ writer'[v].own \in BOOLEAN
    <3>1. TAKE v \in Writers
    <3>2. CASE v = w
      BY <1>2, <3>2 DEF Places
    <3>3. CASE v # w
      <4>1. writer'[v] = writer[v]
        BY <1>2, <3>3
      <4>2. QED
        BY <1>1, <4>1 DEF Types
    <3>4. QED
      BY <3>2, <3>3
  <2>4. QED
    BY <1>2, <2>1, <2>2, <2>3 DEF Types
<1>6. Watched'
  BY <1>1, <1>2, <1>3, SectionStays DEF Watched, WatchesCol, WatchesRow, At, cursor
<1>7. ASSUME ~raced' PROVE Calm'
  <2>1. Calm /\ (w = "ap" => At("sci", "idle")) /\ (w = "sci" => At("ap", "idle"))
    BY <1>4, <1>7 DEF IInv
  <2>2. ApAlone'
    BY <1>1, <1>2, <2>1 DEF Calm, ApAlone, Runs, At, Writers
  <2>3. StoresNear' /\ CursorNear' /\ DrawsNear'
    BY <1>1, <1>2, <1>3, <2>1, SectionStays
       DEF Calm, StoresNear, CursorNear, DrawsNear, WatchesCol, WatchesRow, At, Writers, cursor
  <2>4. FrameKept'
    BY <1>3, <2>1, ScreenKept DEF Calm, setup
  <2>5. QED
    BY <2>2, <2>3, <2>4 DEF Calm
<1>8. QED
  BY <1>5, <1>6, <1>7 DEF IInv

\* A step that moves nobody: the prints before the screen is set up, and its setup.
LEMMA NobodyMoves ==
    ASSUME IInv, UNCHANGED <<writer, raced, mixed>>, initialized' \in BOOLEAN,
           cursor' = <<0, 0>> \/ cursor' = cursor,
           initialized' => screen' = Decorated \/ UNCHANGED <<screen, initialized>>
    PROVE  IInv'
<1>1. Types' /\ Watched'
  BY SectionSize, SectionStays DEF IInv, Types, Watched, WatchesCol, WatchesRow, At, cursor
<1>2. ASSUME ~raced PROVE Calm'
  <2>1. Calm
    BY <1>2 DEF IInv
  <2>2. ApAlone' /\ StoresNear' /\ DrawsNear'
    BY <2>1, SectionStays DEF Calm, ApAlone, StoresNear, DrawsNear, At
  <2>3. CursorNear'
    BY <2>1, SectionStays, SectionSize
       DEF Calm, CursorNear, WatchesCol, WatchesRow, At, cursor
  <2>4. FrameKept'
    <3>1. CASE initialized' /\ UNCHANGED <<screen, initialized>>
      BY <2>1, <3>1 DEF Calm, FrameKept
    <3>2. CASE initialized' => screen' = Decorated
      BY <3>2 DEF FrameKept
    <3>3. QED
      BY <3>1, <3>2
  <2>5. QED
    BY <2>2, <2>3, <2>4 DEF Calm
<1>3. QED
  BY <1>1, <1>2 DEF IInv

LEMMA InitIInv == Init => IInv
<1> SUFFICES ASSUME Init PROVE IInv
  OBVIOUS
<1>1. /\ initialized = FALSE /\ mixed = FALSE /\ raced = FALSE /\ col = 0 /\ row = 0
      /\ writer = [w \in Writers |-> Idle]
  BY DEF Init
<1>2. Types
  BY <1>1 DEF Types, Idle, FieldNames, Places
<1>3. \A w \in Writers : At(w, "idle")
  BY <1>1 DEF At, Idle
<1>4. Watched
  BY <1>1, SectionSize DEF Watched
<1>5. Calm
  BY <1>1, <1>3, SectionSize
     DEF Calm, ApAlone, StoresNear, CursorNear, DrawsNear, FrameKept, At, Writers
<1>6. QED
  BY <1>2, <1>4, <1>5 DEF IInv

LEMMA NextIInv == IInv /\ [Next]_vars => IInv'
<1> SUFFICES ASSUME IInv, [Next]_vars PROVE IInv'
  OBVIOUS
<1>1. initialized \in BOOLEAN
  BY DEF IInv, Types
<1>2. CASE serial_initialize
  BY <1>1, <1>2, NobodyMoves DEF serial_initialize, ghost
<1>3. CASE KernelGUI_initialize
  BY <1>3, NobodyMoves DEF KernelGUI_initialize, cursor
<1>4. ASSUME NEW m \in Early, kprintf_early(m) PROVE IInv'
  <2>1. UNCHANGED <<initialized, port, screen, cursor, writer, mixed, raced>>
    BY <1>4 DEF kprintf_early
  <2>2. QED
    BY <1>1, <2>1, NobodyMoves
<1>5. ASSUME NEW w \in Writers, Runs(w), kputchar(w) PROVE IInv'
  BY <1>5, StartChar, Draw, LoadCol, StoreCol, Wrap, LoadRow, StoreRow, CheckRow, Scroll,
     Settle
     DEF kputchar
<1>6. ASSUME NEW w \in Writers, NEW m \in Messages[w], kprintf(w, m) PROVE IInv'
  BY <1>6, Begins
<1>7. CASE UNCHANGED vars
  <2>1. UNCHANGED <<writer, raced, mixed, cursor, screen, initialized>>
    BY <1>7 DEF vars, ghost, cursor
  <2>2. QED
    BY <1>1, <2>1, NobodyMoves
<1>8. QED
  BY <1>2, <1>3, <1>4, <1>5, <1>6, <1>7 DEF Next

LEMMA AlwaysIInv == Spec => []IInv
<1>1. QED
  BY InitIInv, NextIInv, PTL DEF Spec

\* When nobody prints the cursor is inside the section, however the prints before
\* have raced for it (kernel_ui.cpp 65-71, 76-101).
THEOREM CursorComesBack == Spec => []CursorSettles
<1>1. IInv => CursorSettles
  BY DEF IInv, Types, Watched, WatchesCol, WatchesRow, CursorSettles, Quiet, At
<1>2. QED
  BY <1>1, AlwaysIInv, PTL

\* As long as no two processors have printed at once no glyph has landed on the
\* frame or the title, whatever the interrupt prints into the print it
\* interrupts (kernel_ui.cpp 58-66, 92-99).
THEOREM FrameStays == Spec => []FrameIntact
<1>1. IInv => FrameIntact
  BY DEF IInv, Calm, FrameIntact
<1>2. QED
  BY <1>1, AlwaysIInv, PTL

-----------------------------------------------------------------------------
(* Functions defined by recursion over the numbers, and what they are.      *)

\* Every set of numbers has a least one: a property of all numbers is proved from
\* its least counterexample.
LEMMA LeastOf ==
    ASSUME NEW S \in SUBSET Nat, S # {}
    PROVE  \E n \in S : \A m \in S : n <= m
<1> DEFINE R == OpToRel(<, Nat)
<1>1. IsWellFoundedOn(R, Nat)
  BY NatLessThanWellFounded
<1>2. \A p \in Nat \X Nat : p[1] < p[2] => p \in R
  BY DEF OpToRel
<1> HIDE DEF R
<1>3. PICK x \in S : \A y \in S : ~(<<y, x>> \in R)
  BY <1>1, WFMin
<1>4. ASSUME NEW y \in S PROVE x <= y
  <2>1. x \in Nat /\ y \in Nat
    OBVIOUS
  <2>2. <<y, x>> \in Nat \X Nat /\ <<y, x>>[1] = y /\ <<y, x>>[2] = x
    BY <2>1
  <2>3. y < x => <<y, x>> \in R
    BY <1>2, <2>2, Zenon
  <2>4. QED
    BY <1>3, <2>1, <2>3
<1>5. QED
  BY <1>4

\* Values of S that begin with a and go on, up to top, as F says; and a function
\* that goes on so as long as its values are in S, and so always.
Follows(f, F, top) == \A n \in 1..top : f[n] = F[<<n, f[n - 1]>>]
ValuesIn(f, S, top) == \A n \in 0..top : f[n] \in S
FollowsIn(S, g, F, top) == \A n \in 1..top : g[n - 1] \in S => g[n] = F[<<n, g[n - 1]>>]
StaysIn(F, S) == F \in [Nat \X S -> S]
Recursive(f, S, a, F) ==
    f \in [Nat -> S] /\ f[0] = a /\ \A n \in Nat \ {0} : f[n] = F[<<n, f[n - 1]>>]

\* A function that goes on as f does, as long as its values are in S, is f.
LEMMA SameRecursion ==
    ASSUME NEW S, NEW F, NEW top \in Nat, NEW f, NEW g, f[0] = g[0],
           Follows(f, F, top), ValuesIn(f, S, top), FollowsIn(S, g, F, top)
    PROVE  \A n \in 0..top : g[n] = f[n]
<1> DEFINE Wrong == {n \in 0..top : g[n] # f[n]}
<1> SUFFICES ASSUME Wrong # {} PROVE FALSE
  OBVIOUS
<1>1. PICK n \in Wrong : \A m \in Wrong : n <= m
  BY ONLY Wrong # {}, Wrong \in SUBSET Nat, LeastOf
<1>2. n \in 1..top /\ n - 1 \in 0..top /\ n - 1 \notin Wrong
  BY <1>1
<1>3. QED
  BY <1>1, <1>2 DEF Follows, ValuesIn, FollowsIn

\* What a recursive definition defines.
LEMMA Recursion ==
    ASSUME NEW S, NEW a \in S, NEW F, StaysIn(F, S)
    PROVE  \E f : Recursive(f, S, a, F)
<1> DEFINE Up(n, f) == f \in [0..n -> S] /\ f[0] = a /\ Follows(f, F, n)
           Missing == {n \in Nat : ~\E f : Up(n, f)}
<1>1. Missing = {}
  <2> SUFFICES ASSUME Missing # {} PROVE FALSE
    OBVIOUS
  <2>1. PICK n \in Missing : \A m \in Missing : n <= m
    BY ONLY Missing # {}, Missing \in SUBSET Nat, LeastOf
  <2>2. CASE n = 0
    <3>1. Up(0, [k \in 0..0 |-> a])
      BY DEF Follows
    <3>2. QED
      BY <2>1, <2>2, <3>1
  <2>3. CASE n # 0
    <3>1. PICK f : Up(n - 1, f)
      BY <2>1, <2>3
    <3> DEFINE g == [k \in 0..n |-> IF k = n THEN F[<<n, f[n - 1]>>] ELSE f[k]]
    <3>2. n \in Nat /\ n - 1 \in Nat /\ f[n - 1] \in S
      BY <2>1, <2>3, <3>1
    <3>3. F[<<n, f[n - 1]>>] \in S
      BY <3>2 DEF StaysIn
    <3>4. g \in [0..n -> S] /\ g[0] = a
      <4>1. \A k \in 0..n : g[k] \in S
        BY <3>1, <3>2, <3>3
      <4>2. QED
        BY <3>1, <3>2, <4>1, <2>3
    <3>5. ASSUME NEW k \in 1..n PROVE g[k] = F[<<k, g[k - 1]>>]
      <4>1. CASE k = n
        <5>1. n \in 0..n /\ n - 1 \in 0..n /\ n - 1 # n
          BY <3>2, <2>3
        <5>2. g[n] = F[<<n, f[n - 1]>>] /\ g[n - 1] = f[n - 1]
          BY ONLY <5>1
        <5>3. QED
          BY ONLY <4>1, <5>2
      <4>2. CASE k # n
        BY <3>1, <3>2, <4>2 DEF Follows
      <4>3. QED
        BY <4>1, <4>2
    <3>6. Up(n, g)
      BY <3>4, <3>5 DEF Follows
    <3>7. QED
      BY <2>1, <3>6
  <2>4. QED
    BY <2>2, <2>3
<1> DEFINE up == [n \in Nat |-> CHOOSE f : Up(n, f)]
<1>2. ASSUME NEW n \in Nat PROVE Up(n, up[n])
  <2>1. \E f : Up(n, f)
    BY <1>1
  <2> HIDE DEF Up
  <2>2. Up(n, CHOOSE f : Up(n, f))
    BY ONLY <2>1
  <2>3. QED
    BY <2>2
<1> HIDE DEF up
<1> DEFINE f == [n \in Nat |-> up[n][n]]
<1>3. f \in [Nat -> S] /\ f[0] = a
  BY <1>2
<1>4. ASSUME NEW n \in Nat \ {0} PROVE f[n] = F[<<n, f[n - 1]>>]
  <2>1. n - 1 \in Nat /\ Up(n, up[n]) /\ Up(n - 1, up[n - 1])
    BY <1>2
  <2>2. Follows(up[n], F, n - 1) /\ Follows(up[n - 1], F, n - 1) /\ up[n][0] = up[n - 1][0]
    <3>1. \A k \in 1..(n - 1) : k \in 1..n
      BY <2>1
    <3>2. QED
      BY ONLY <2>1, <3>1 DEF Follows
  <2>3. \A k \in 0..(n - 1) : up[n][k] = up[n - 1][k]
    <3>1. ValuesIn(up[n - 1], S, n - 1)
      BY <2>1 DEF ValuesIn
    <3>2. FollowsIn(S, up[n], F, n - 1)
      BY ONLY <2>2 DEF Follows, FollowsIn
    <3>3. QED
      BY ONLY <2>1, <2>2, <3>1, <3>2, SameRecursion
  <2>4. up[n][n - 1] = up[n - 1][n - 1] /\ up[n][n] = F[<<n, up[n][n - 1]>>]
    BY <2>1, <2>3 DEF Follows
  <2>5. QED
    BY <2>1, <2>4
<1>5. Recursive(f, S, a, F)
  BY ONLY <1>3, <1>4 DEF Recursive
<1> HIDE DEF f
<1>6. QED
  BY ONLY <1>5

\* The powers of b.
LEMMA PowerOf ==
    ASSUME NEW b \in Nat \ {0}
    PROVE  /\ Power(b) \in [Nat -> Nat \ {0}] /\ Power(b)[0] = 1
           /\ \A n \in Nat \ {0} : Power(b)[n] = b * Power(b)[n - 1]
<1> DEFINE S == Nat \ {0}
           F == [x \in Nat \X S |-> b * x[2]]
           Is(g) == g = [n \in Nat |-> IF n = 0 THEN 1 ELSE b * g[n - 1]]
           G == CHOOSE g : Is(g)
<1>1. StaysIn(F, S) /\ 1 \in S
  BY DEF StaysIn
<1>2. \A n \in Nat, k \in S : F[<<n, k>>] = b * k
  OBVIOUS
<1> HIDE DEF S, F
<1>3. PICK f : Recursive(f, S, 1, F)
  BY ONLY <1>1, Recursion
<1>4. f \in [Nat -> S] /\ f[0] = 1 /\ \A n \in Nat \ {0} : f[n] = b * f[n - 1]
  <2>1. f \in [Nat -> S] /\ f[0] = 1
    BY ONLY <1>3 DEF Recursive
  <2>2. ASSUME NEW n \in Nat \ {0} PROVE f[n] = b * f[n - 1]
    <3>1. n - 1 \in Nat /\ n \in Nat
      OBVIOUS
    <3>2. f[n - 1] \in S /\ f[n] = F[<<n, f[n - 1]>>]
      BY ONLY <1>3, <3>1, n \in Nat \ {0} DEF Recursive
    <3>3. F[<<n, f[n - 1]>>] = b * f[n - 1]
      BY ONLY <1>2, <3>1, <3>2
    <3>4. QED
      BY ONLY <3>2, <3>3
  <2>3. QED
    BY ONLY <2>1, <2>2
<1>5. Is(f)
  BY ONLY <1>4
<1>6. Is(G)
  BY ONLY <1>5
<1>7. Power(b) = G
  BY DEF Power
<1> HIDE DEF G
<1>8. ASSUME NEW n \in Nat PROVE G[n] = f[n]
  <2>1. f[0] = G[0] /\ Follows(f, F, n) /\ ValuesIn(f, S, n)
    BY <1>3, <1>6 DEF Follows, ValuesIn, Recursive
  <2>2. FollowsIn(S, G, F, n)
    BY <1>2, <1>6 DEF FollowsIn
  <2>3. \A k \in 0..n : G[k] = f[k]
    BY ONLY <2>1, <2>2, SameRecursion, n \in Nat
  <2>4. QED
    BY <2>3
<1>9. G = f
  BY <1>4, <1>6, <1>8
<1>10. QED
  BY ONLY <1>4, <1>7, <1>9 DEF S

-----------------------------------------------------------------------------
(* The number conversions.                                                  *)

\* Multiplication and the powers grow.
LEMMA TimesGrows ==
    ASSUME NEW b \in Nat, NEW c \in Nat, NEW x \in Nat, NEW y \in Nat, b <= c, x <= y
    PROVE  b * x <= c * y /\ b * x \in Nat
<1>1. b * x \in Nat /\ b * y \in Nat /\ c * y \in Nat
  OBVIOUS
<1>2. b * x <= b * y
  OBVIOUS
<1>3. b * y <= c * y
  OBVIOUS
<1>4. QED
  BY ONLY <1>1, <1>2, <1>3

LEMMA PowerGrows ==
    ASSUME NEW b \in Nat \ {0}, NEW m \in Nat, NEW n \in Nat, m <= n
    PROVE  Power(b)[m] <= Power(b)[n]
<1> DEFINE Wrong == {k \in Nat : k >= m /\ ~(Power(b)[m] <= Power(b)[k])}
<1> SUFFICES ASSUME Wrong # {} PROVE FALSE
  OBVIOUS
<1>1. PICK k \in Wrong : \A i \in Wrong : k <= i
  BY ONLY Wrong # {}, Wrong \in SUBSET Nat, LeastOf
<1>2. \A i \in Nat : Power(b)[i] \in Nat
  BY PowerOf
<1>3. k \in Nat /\ k - 1 \in Nat /\ k # 0 /\ k - 1 >= m /\ k - 1 \notin Wrong
  BY <1>1, <1>2
<1>4. Power(b)[m] <= Power(b)[k - 1]
  BY <1>3
<1>5. Power(b)[k] = b * Power(b)[k - 1]
  BY <1>3, PowerOf
<1>6. 1 * Power(b)[k - 1] <= b * Power(b)[k - 1]
  BY <1>2, <1>3, TimesGrows
<1>7. QED
  BY <1>1, <1>2, <1>3, <1>4, <1>5, <1>6

\* The powers of b, and those of 2 that bound a word.
LEMMA PowersOf ==
    ASSUME NEW b \in Nat, b >= 2
    PROVE  /\ \A n \in Nat : Power(b)[n] \in Nat \ {0} /\ Power(2)[n] \in Nat \ {0}
           /\ Power(b)[0] = 1 /\ Power(2)[0] = 1
           /\ \A n \in Nat \ {0} : /\ Power(b)[n] = b * Power(b)[n - 1]
                                  /\ Power(2)[n] = 2 * Power(2)[n - 1]
<1>1. b \in Nat \ {0} /\ 2 \in Nat \ {0}
  OBVIOUS
<1>2. QED
  BY ONLY <1>1, PowerOf

\* A number of Bits binary digits has no more digits in another base.
LEMMA PowerOfTwoLeast ==
    ASSUME NEW b \in Nat, b >= 2, NEW n \in Nat
    PROVE  Power(2)[n] <= Power(b)[n]
<1> DEFINE Wrong == {k \in Nat : ~(Power(2)[k] <= Power(b)[k])}
<1> SUFFICES ASSUME Wrong # {} PROVE FALSE
  OBVIOUS
<1>1. PICK k \in Wrong : \A i \in Wrong : k <= i
  BY ONLY Wrong # {}, Wrong \in SUBSET Nat, LeastOf
<1>2. \A i \in Nat : Power(b)[i] \in Nat /\ Power(2)[i] \in Nat
  BY PowersOf
<1>3. k # 0
  BY <1>1, PowersOf
<1>4. k \in Nat \ {0} /\ k - 1 \in Nat /\ k - 1 \notin Wrong
  BY <1>1, <1>3
<1>5. Power(2)[k] = 2 * Power(2)[k - 1] /\ Power(b)[k] = b * Power(b)[k - 1]
  BY <1>4, PowersOf
<1>6. 2 * Power(2)[k - 1] <= b * Power(b)[k - 1]
  BY <1>2, <1>4, TimesGrows
<1>7. QED
  BY <1>1, <1>5, <1>6

\* The number of digits of v.
HasLength(v, b, n) == v < Power(b)[n] /\ (n = 1 \/ Power(b)[n - 1] <= v)

\* A word has a length,
LEMMA LengthOf ==
    ASSUME NEW b \in Nat, b >= 2, NEW v \in Nat, v < Power(2)[Bits]
    PROVE  Length(v, b) \in 1..Bits /\ HasLength(v, b, Length(v, b))
<1> DEFINE Enough == {n \in Nat \ {0} : v < Power(b)[n]}
<1>1. /\ Bits \in Nat \ {0} /\ Power(2)[Bits] <= Power(b)[Bits]
      /\ Power(2)[Bits] \in Nat /\ Power(b)[Bits] \in Nat
  BY BitsAssumption, PowerOfTwoLeast, PowersOf
<1>2. Bits \in Enough
  BY <1>1
<1>3. PICK n \in Enough : \A i \in Enough : n <= i
  BY ONLY <1>2, Enough \in SUBSET Nat, LeastOf
<1>4. n \in 1..Bits /\ (n = 1 \/ (n - 1 \in Nat \ {0} /\ n - 1 \notin Enough))
  BY <1>1, <1>2, <1>3
<1>5. HasLength(v, b, n)
  BY <1>3, <1>4, PowersOf DEF HasLength
<1>6. Length(v, b) = CHOOSE k \in 1..(Bits + 1) : HasLength(v, b, k)
  BY DEF Length, HasLength
<1>7. n \in 1..(Bits + 1)
  BY <1>1, <1>4
<1>8. Length(v, b) \in 1..(Bits + 1) /\ HasLength(v, b, Length(v, b))
  BY ONLY <1>5, <1>6, <1>7
<1>9. Length(v, b) # Bits + 1
  BY <1>1, <1>8 DEF HasLength
<1>10. QED
  BY <1>1, <1>8, <1>9

\* and one only.
LEMMA OneLength ==
    ASSUME NEW b \in Nat, b >= 2, NEW v \in Nat, NEW m \in Nat \ {0}, NEW n \in Nat \ {0},
           HasLength(v, b, m), HasLength(v, b, n)
    PROVE  m = n
<1>1. ASSUME NEW i \in Nat \ {0}, NEW j \in Nat \ {0}, i < j,
             HasLength(v, b, i), HasLength(v, b, j)
      PROVE  FALSE
  <2>1. j - 1 \in Nat /\ i <= j - 1 /\ b \in Nat \ {0} /\ j # 1
    BY <1>1
  <2>2. Power(b)[i] <= Power(b)[j - 1] /\ Power(b)[i] \in Nat /\ Power(b)[j - 1] \in Nat
    BY <2>1, PowerGrows, PowersOf
  <2>3. QED
    BY <1>1, <2>1, <2>2 DEF HasLength
<1>2. QED
  BY <1>1

\* Quotients.
LEMMA QuotientIs ==
    ASSUME NEW d \in Nat \ {0}, NEW q \in Nat, NEW r \in 0..(d - 1)
    PROVE  (q * d + r) \div d = q /\ (q * d + r) % d = r
  OBVIOUS

LEMMA Quotient ==
    ASSUME NEW v \in Nat, NEW d \in Nat \ {0}
    PROVE  v \div d \in Nat /\ v % d \in 0..(d - 1) /\ v = (v \div d) * d + (v % d)
  OBVIOUS

LEMMA QuotientTwice ==
    ASSUME NEW v \in Nat, NEW b \in Nat \ {0}, NEW m \in Nat \ {0}
    PROVE  (v \div b) \div m = v \div (b * m)
<1> DEFINE u == v \div b
           r == v % b
           q == u \div m
           s == u % m
<1>1. u \in Nat /\ r \in 0..(b - 1) /\ v = u * b + r
  BY Quotient
<1>2. q \in Nat /\ s \in 0..(m - 1) /\ u = q * m + s
  BY ONLY <1>1, Quotient, m \in Nat \ {0}
<1> HIDE DEF u, r, q, s
<1>3. b * m \in Nat \ {0} /\ s * b + r \in Nat /\ q * m \in Nat /\ s * b \in Nat
  BY <1>1, <1>2
<1>4. s * b + r < b * m
  <2>1. s * b <= (m - 1) * b
    BY <1>1, <1>2
  <2>2. (m - 1) * b = b * m - b
    OBVIOUS
  <2>3. QED
    BY <1>1, <1>2, <1>3, <2>1, <2>2
<1>5. v = q * (b * m) + (s * b + r)
  <2>1. u * b = (q * m) * b + s * b
    BY <1>1, <1>2, <1>3
  <2>2. (q * m) * b = q * (b * m)
    BY <1>2
  <2>3. q * (b * m) \in Nat
    BY <1>2, <1>3
  <2>4. QED
    BY <1>1, <1>3, <2>1, <2>2, <2>3
<1>6. v \div (b * m) = q
  <2>1. s * b + r \in 0..(b * m - 1)
    BY <1>3, <1>4
  <2>2. QED
    BY ONLY <1>2, <1>3, <2>1, <1>5, QuotientIs
<1>7. QED
  BY <1>6 DEF q, u

\* Words are numbers, and digits characters.
LEMMA WordIs == Word \in SUBSET Nat /\ \A v \in Nat : v \in Word <=> v < Power(2)[Bits]
<1>1. Bits \in Nat /\ 2 \in Nat /\ 2 >= 2
  BY BitsAssumption
<1>2. Power(2)[Bits] \in Nat
  BY <1>1, PowersOf
<1>3. QED
  BY <1>2 DEF Word

LEMMA DigitIs == \A d \in 0..15 : Digit(d) \in Characters
<1>1. DOMAIN Chars = 1..16
  BY DEF Chars
<1>2. \A d \in 0..15 : d + 1 \in 1..16
  OBVIOUS
<1>3. QED
  BY <1>1, <1>2, CharactersAssumption DEF Digit, Range

\* A character before a text.
LEMMA Before ==
    ASSUME NEW S, NEW x \in S, NEW s \in Seq(S)
    PROVE  <<x>> \o s = [k \in 1..(Len(s) + 1) |-> IF k = 1 THEN x ELSE s[k - 1]]
  OBVIOUS

\* The digits from the lowest one up.
Lowest(v, b) ==
    IF v = 0 THEN <<>>
    ELSE [k \in 1..Length(v, b) |-> Digit((v \div Power(b)[k - 1]) % b)]

\* They are a text,
LEMMA LowestIsText ==
    ASSUME NEW b \in 2..16, NEW v \in Word
    PROVE  Lowest(v, b) \in Seq(Characters)
<1>1. CASE v = 0
  BY <1>1 DEF Lowest
<1>2. CASE v # 0
  <2>1. Length(v, b) \in Nat /\ v \in Nat /\ b \in Nat \ {0} /\ b >= 2
    BY LengthOf, WordIs, BitsAssumption
  <2>2. ASSUME NEW k \in 1..Length(v, b) PROVE Digit((v \div Power(b)[k - 1]) % b) \in Characters
    <3>1. Power(b)[k - 1] \in Nat \ {0}
      BY <2>1, PowersOf
    <3>2. v \div Power(b)[k - 1] \in Nat
      BY ONLY <2>1, <3>1, Quotient
    <3>3. (v \div Power(b)[k - 1]) % b \in 0..(b - 1)
      BY ONLY <2>1, <3>2, Quotient
    <3>4. (v \div Power(b)[k - 1]) % b \in 0..15
      BY <3>3
    <3>5. QED
      BY ONLY <3>4, DigitIs
  <2>3. QED
    BY <1>2, <2>1, <2>2 DEF Lowest
<1>3. QED
  BY <1>1, <1>2

\* which begins with the lowest digit and goes on with those of the quotient.
LEMMA LowestStep ==
    ASSUME NEW b \in 2..16, NEW v \in Word, v # 0
    PROVE  /\ v \div b \in Word /\ v \div b < v
           /\ Lowest(v, b) = <<Digit(v % b)>> \o Lowest(v \div b, b)
<1> DEFINE w == v \div b
           r == v % b
           P == Power(b)
<1>1. /\ b \in Nat \ {0} /\ b \in Nat /\ b >= 2 /\ v \in Nat \ {0} /\ v \in Nat
      /\ v < Power(2)[Bits] /\ Power(2)[Bits] \in Nat
  BY WordIs, PowersOf, BitsAssumption
<1>2. w \in Nat /\ r \in 0..(b - 1) /\ v = w * b + r
  BY ONLY <1>1, Quotient
<1>3. w < v
  BY <1>1, <1>2
<1>4. w \in Word
  BY <1>1, <1>2, <1>3, WordIs
<1>5. P[0] = 1 /\ P[1] = b * P[0] /\ \A n \in Nat : P[n] \in Nat \ {0}
  BY <1>1, PowersOf
<1>6. (v \div P[0]) % b = r
  BY <1>1, <1>5
<1> HIDE DEF w, r
<1>7. Digit(r) \in Characters /\ Lowest(w, b) \in Seq(Characters)
  <2>1. r \in 0..15
    BY <1>2
  <2>2. QED
    BY ONLY <1>4, <2>1, DigitIs, LowestIsText, b \in 2..16
<1>8. <<Digit(r)>> \o Lowest(w, b)
        = [k \in 1..(Len(Lowest(w, b)) + 1) |-> IF k = 1 THEN Digit(r) ELSE Lowest(w, b)[k - 1]]
  BY ONLY <1>7, Before
<1>9. Lowest(v, b) = [k \in 1..Length(v, b) |-> Digit((v \div P[k - 1]) % b)]
  BY DEF Lowest
<1>10. Length(v, b) \in Nat \ {0} /\ HasLength(v, b, Length(v, b))
  BY <1>1, LengthOf, BitsAssumption
<1>11. CASE w = 0
  <2>1. HasLength(v, b, 1)
    BY <1>1, <1>2, <1>5, <1>11 DEF HasLength
  <2>2. Length(v, b) = 1
    BY <1>1, <1>10, <2>1, OneLength
  <2>3. Lowest(w, b) = <<>>
    BY <1>11 DEF Lowest
  <2>4. QED
    BY <1>3, <1>4, <1>8, <1>9, <1>6, <2>2, <2>3 DEF w, r
<1>12. CASE w # 0
  <2> DEFINE n == Length(w, b)
  <2>1. n \in Nat \ {0} /\ HasLength(w, b, n)
    BY <1>1, <1>2, <1>3, LengthOf, BitsAssumption
  <2> HIDE DEF n
  <2>2. P[n + 1] = b * P[n] /\ P[n] = b * P[n - 1] /\ P[n] \in Nat /\ P[n - 1] \in Nat
    BY <1>1, <2>1, PowersOf
  <2>3. w + 1 <= P[n] /\ P[n - 1] <= w
    BY <1>2, <1>5, <1>12, <2>1, <2>2 DEF HasLength
  <2>4. b * (w + 1) <= b * P[n] /\ b * P[n - 1] <= b * w
    BY <1>1, <1>2, <2>2, <2>3, TimesGrows
  <2>5. b * (w + 1) = w * b + b /\ b * w = w * b /\ w * b \in Nat /\ b * P[n] \in Nat
    BY <1>1, <1>2, <2>2
  <2>6. HasLength(v, b, n + 1)
    <3>1. v < P[n + 1] /\ P[n] <= v
      BY <1>1, <1>2, <2>2, <2>4, <2>5
    <3>2. (n + 1) - 1 = n
      BY <2>1
    <3>3. QED
      BY <3>1, <3>2 DEF HasLength
  <2>7. Length(v, b) = n + 1
    BY <1>1, <1>10, <2>1, <2>6, OneLength
  <2>8. Lowest(w, b) = [k \in 1..n |-> Digit((w \div P[k - 1]) % b)] /\ Len(Lowest(w, b)) = n
    BY <1>12, <2>1 DEF Lowest, n
  <2>9. ASSUME NEW k \in 1..(n + 1), k # 1
        PROVE  (v \div P[k - 1]) % b = (w \div P[k - 2]) % b
    <3>1. k - 1 \in Nat \ {0} /\ k - 2 \in Nat /\ (k - 1) - 1 = k - 2
      BY <2>1, <2>9
    <3>2. P[k - 1] = b * P[k - 2] /\ P[k - 2] \in Nat \ {0}
      BY <1>1, <3>1, PowersOf
    <3>3. w \div P[k - 2] = v \div (b * P[k - 2])
      BY ONLY <1>1, <3>2, QuotientTwice DEF w
    <3>4. QED
      BY <3>2, <3>3
  <2>10. ASSUME NEW k \in 1..(n + 1)
         PROVE  Lowest(v, b)[k] = (<<Digit(r)>> \o Lowest(w, b))[k]
    <3>1. CASE k = 1
      BY <1>8, <1>9, <1>6, <2>1, <2>7, <2>8, <3>1
    <3>2. CASE k # 1
      <4>1. k - 1 \in 1..n /\ (k - 1) - 1 = k - 2
        BY <2>1, <3>2
      <4>2. (<<Digit(r)>> \o Lowest(w, b))[k] = Digit((w \div P[k - 2]) % b)
        BY <1>8, <2>8, <3>2, <4>1
      <4>3. QED
        BY <1>9, <2>7, <2>9, <3>2, <4>2
    <3>3. QED
      BY <3>1, <3>2
  <2>11. Lowest(v, b) = <<Digit(r)>> \o Lowest(w, b)
    <3>1. Lowest(v, b) = [k \in 1..(n + 1) |-> Lowest(v, b)[k]]
      BY ONLY <1>9, <2>7
    <3>2. <<Digit(r)>> \o Lowest(w, b)
            = [k \in 1..(n + 1) |-> (<<Digit(r)>> \o Lowest(w, b))[k]]
      BY ONLY <1>8, <2>8
    <3>3. [k \in 1..(n + 1) |-> Lowest(v, b)[k]]
            = [k \in 1..(n + 1) |-> (<<Digit(r)>> \o Lowest(w, b))[k]]
      BY ONLY <2>10
    <3>4. QED
      BY ONLY <3>1, <3>2, <3>3
  <2>12. QED
    BY <1>3, <1>4, <2>11 DEF w, r
<1>13. QED
  BY <1>11, <1>12

\* So the loop of utoa finds these digits (string_util.cpp 92-104).
LEMMA BackwardsIs ==
    ASSUME NEW b \in 2..16, NEW v \in Word
    PROVE  backwards(b)[v] = Lowest(v, b)
<1> DEFINE Is(g) == g = [u \in Word |-> IF u = 0 THEN <<>>
                                        ELSE <<Digit(u % b)>> \o g[u \div b]]
           G == CHOOSE g : Is(g)
           D == [u \in Word |-> Lowest(u, b)]
<1>1. Is(D)
  <2>1. ASSUME NEW u \in Word
        PROVE  D[u] = IF u = 0 THEN <<>> ELSE <<Digit(u % b)>> \o D[u \div b]
    <3>1. CASE u = 0
      BY <3>1 DEF Lowest
    <3>2. CASE u # 0
      BY <3>2, LowestStep
    <3>3. QED
      BY <3>1, <3>2
  <2>2. QED
    BY <2>1
<1>2. Is(G)
  BY ONLY <1>1
<1>3. backwards(b) = G
  BY DEF backwards
<1> HIDE DEF G
<1> DEFINE Wrong == {u \in Word : G[u] # Lowest(u, b)}
<1>4. Wrong = {}
  <2> SUFFICES ASSUME Wrong # {} PROVE FALSE
    OBVIOUS
  <2>1. Wrong \in SUBSET Nat
    BY WordIs
  <2>2. PICK u \in Wrong : \A i \in Wrong : u <= i
    BY ONLY Wrong # {}, <2>1, LeastOf
  <2>3. u # 0
    BY <1>2, <2>2 DEF Lowest
  <2>4. u \in Word /\ u \div b \in Word /\ u \div b < u /\ u \in Nat /\ u \div b \in Nat
    BY <2>1, <2>2, <2>3, LowestStep, WordIs
  <2>5. G[u \div b] = Lowest(u \div b, b)
    BY <2>2, <2>4
  <2>6. G[u] = <<Digit(u % b)>> \o G[u \div b]
    BY <1>2, <2>3, <2>4
  <2>7. G[u] = Lowest(u, b)
    BY <2>3, <2>4, <2>5, <2>6, LowestStep
  <2>8. QED
    BY <2>2, <2>7
<1>5. QED
  BY <1>3, <1>4

\* utoa writes every number in positional notation (string_util.cpp 81-118).
LEMMA UtoaIs ==
    ASSUME NEW b \in 2..16, NEW v \in Word
    PROVE  utoa(v, b) = Numeral(v, b) /\ utoa(v, b) \in Seq(Characters)
<1> DEFINE n == Length(v, b)
           P == Power(b)
<1>1. /\ b \in Nat /\ b \in Nat \ {0} /\ b >= 2 /\ v \in Nat /\ v < Power(2)[Bits]
      /\ n \in Nat \ {0} /\ HasLength(v, b, n)
  BY WordIs, LengthOf, BitsAssumption
<1>2. P[0] = 1 /\ P[1] = b * P[0] /\ \A k \in Nat : P[k] \in Nat \ {0}
  BY <1>1, PowersOf
<1>3. Numeral(v, b) = [k \in 1..n |-> Digit((v \div P[n - k]) % b)]
  BY DEF Numeral
<1> HIDE DEF n
<1>4. CASE v = 0
  <2>1. HasLength(v, b, 1)
    BY <1>1, <1>2, <1>4 DEF HasLength
  <2>2. n = 1
    BY <1>1, <2>1, OneLength
  <2>3. (v \div P[0]) % b = 0
    BY <1>1, <1>2, <1>4
  <2>4. Digit(0) = "0"
    BY DEF Digit, Chars
  <2>5. Numeral(v, b) = <<"0">>
    BY <1>3, <2>2, <2>3, <2>4
  <2>6. "0" \in Characters
    BY <2>4, DigitIs
  <2>7. utoa(v, b) = <<"0">>
    BY <1>4 DEF utoa
  <2>8. QED
    BY ONLY <2>5, <2>6, <2>7
<1>5. CASE v # 0
  <2>1. utoa(v, b) = Reverse(Lowest(v, b)) /\ Lowest(v, b) \in Seq(Characters)
    BY <1>5, BackwardsIs, LowestIsText DEF utoa
  <2>2. Lowest(v, b) = [k \in 1..n |-> Digit((v \div P[k - 1]) % b)]
    BY <1>5 DEF Lowest, n
  <2>3. Len(Lowest(v, b)) = n
    BY <1>1, <2>2
  <2>4. Reverse(Lowest(v, b)) = [k \in 1..n |-> Lowest(v, b)[(n - k) + 1]]
    BY ONLY <2>3 DEF Reverse
  <2>5. ASSUME NEW k \in 1..n
        PROVE  Lowest(v, b)[(n - k) + 1] = Digit((v \div P[n - k]) % b)
    <3>1. (n - k) + 1 \in 1..n /\ ((n - k) + 1) - 1 = n - k
      BY <1>1
    <3>2. QED
      BY ONLY <2>2, <3>1
  <2>6. utoa(v, b) = Numeral(v, b)
    <3>1. [k \in 1..n |-> Lowest(v, b)[(n - k) + 1]] = [k \in 1..n |-> Digit((v \div P[n - k]) % b)]
      BY ONLY <2>5
    <3>2. QED
      BY ONLY <1>3, <2>1, <2>4, <3>1
  <2>7. utoa(v, b) \in Seq(Characters)
    <3>1. \A k \in 1..n : (n - k) + 1 \in 1..n
      BY <1>1
    <3>2. \A k \in 1..n : Lowest(v, b)[(n - k) + 1] \in Characters
      BY <2>1, <2>3, <3>1
    <3>3. QED
      BY <1>1, <2>1, <2>4, <3>2
  <2>8. QED
    BY <2>6, <2>7
<1>6. QED
  BY <1>4, <1>5

\* itoa adds the sign, for the smallest number too (string_util.cpp 120-138).
LEMMA ItoaIs ==
    ASSUME NEW v \in Int_t
    PROVE  itoa(v, 10) = Signed(v) /\ itoa(v, 10) \in Seq(Characters)
<1>1. 10 \in 2..16 /\ Bits \in Nat \ {0} /\ Bits - 1 \in Nat
  BY BitsAssumption
<1>2. /\ Power(2)[Bits] = 2 * Power(2)[Bits - 1]
      /\ Power(2)[Bits - 1] \in Nat \ {0} /\ Power(2)[Bits] \in Nat \ {0}
  <2>1. 2 \in Nat /\ 2 >= 2
    OBVIOUS
  <2>2. QED
    BY ONLY <1>1, <2>1, PowersOf, BitsAssumption
<1>3. CASE v < 0
  <2>1. -v \in Nat /\ -v < Power(2)[Bits] /\ ~(-v < 0)
    BY <1>2, <1>3 DEF Int_t
  <2>2. -v \in Word /\ ToWord(-v) % Power(2)[Bits] = -v
    BY <1>2, <2>1, WordIs DEF ToWord
  <2>3. itoa(v, 10) = <<"-">> \o utoa(-v, 10)
    BY <1>3, <2>2 DEF itoa
  <2>4. "-" \in Characters
    BY CharactersAssumption
  <2>5. utoa(-v, 10) = Numeral(-v, 10) /\ utoa(-v, 10) \in Seq(Characters)
    BY ONLY <1>1, <2>2, UtoaIs
  <2>6. itoa(v, 10) = Signed(v)
    BY <1>3, <2>3, <2>5 DEF Signed
  <2>7. itoa(v, 10) \in Seq(Characters)
    <3>1. <<"-">> \in Seq(Characters)
      BY <2>4
    <3>2. <<"-">> \o utoa(-v, 10) \in Seq(Characters)
      BY ONLY <2>5, <3>1
    <3>3. QED
      BY ONLY <2>3, <3>2
  <2>8. QED
    BY <2>6, <2>7
<1>4. CASE ~(v < 0)
  <2>1. v \in Nat /\ v < Power(2)[Bits]
    BY <1>2, <1>4 DEF Int_t
  <2>2. v \in Word /\ ToWord(v) = v
    BY <1>4, <2>1, WordIs DEF ToWord
  <2>3. itoa(v, 10) = utoa(v, 10)
    BY <1>4, <2>2 DEF itoa
  <2>4. utoa(v, 10) = Numeral(v, 10) /\ utoa(v, 10) \in Seq(Characters)
    BY ONLY <1>1, <2>2, UtoaIs
  <2>5. QED
    BY <1>4, <2>3, <2>4 DEF Signed
<1>5. QED
  BY <1>3, <1>4

\* An item prints what it means (string_util.cpp 148-199).
LEMMA ConvertedIs ==
    ASSUME NEW item, Argument(item)
    PROVE  converted(item) = Meaning(item) /\ Meaning(item) \in Seq(Characters)
<1>1. CASE item.kind = "d" /\ item.arg \in Int_t
  BY <1>1, ItoaIs DEF converted, Meaning
<1>2. CASE item.kind = "u" /\ item.arg \in Word
  <2>1. 10 \in 2..16
    OBVIOUS
  <2>2. utoa(item.arg, 10) = Numeral(item.arg, 10) /\ utoa(item.arg, 10) \in Seq(Characters)
    BY ONLY <1>2, <2>1, UtoaIs
  <2>3. QED
    BY <1>2, <2>2 DEF converted, Meaning
<1>3. CASE item.kind = "x" /\ item.arg \in Word
  <2>1. 16 \in 2..16
    OBVIOUS
  <2>2. utoa(item.arg, 16) = Numeral(item.arg, 16) /\ utoa(item.arg, 16) \in Seq(Characters)
    BY ONLY <1>3, <2>1, UtoaIs
  <2>3. QED
    BY <1>3, <2>2 DEF converted, Meaning
<1>4. CASE item.kind = "s" /\ (item.arg = Null \/ item.arg \in Seq(Characters))
  <2>1. "(" \in Characters /\ "n" \in Characters /\ ")" \in Characters
    BY CharactersAssumption
  <2>2. Meaning(item) = converted(item)
    BY <1>4 DEF Meaning
  <2>3. converted(item) = IF item.arg = Null THEN <<"(", "n", ")">> ELSE item.arg
    BY <1>4 DEF converted
  <2>4. QED
    BY ONLY <1>4, <2>1, <2>2, <2>3
<1>5. CASE item.kind = "c" /\ item.arg \in Characters
  BY <1>5 DEF converted, Meaning
<1>6. CASE item.kind = "unknown" /\ item.arg \in Characters
  <2>1. "%" \in Characters
    BY CharactersAssumption
  <2>2. QED
    BY <1>6, <2>1 DEF converted, Meaning
<1>7. CASE item.kind = "%"
  <2>1. "%" \in Characters
    BY CharactersAssumption
  <2>2. QED
    BY <1>7, <2>1 DEF converted, Meaning
<1>8. QED
  BY <1>1, <1>2, <1>3, <1>4, <1>5, <1>6, <1>7 DEF Argument

\* What FlattenSeq makes of texts is a text.
LEMMA FlattenIsText ==
    ASSUME NEW seqs, NEW top \in Nat, Len(seqs) = top,
           \A i \in 1..top : seqs[i] \in Seq(Characters), top = 0 => seqs = <<>>
    PROVE  FlattenSeq(seqs) \in Seq(Characters)
<1> DEFINE S == Seq(Characters)
           F == [x \in Nat \X S |-> IF x[1] \in 1..top THEN x[2] \o seqs[x[1]] ELSE x[2]]
           Is(g) == g = [i \in 1..top |-> IF i = 1 THEN seqs[i] ELSE g[i - 1] \o seqs[i]]
           G == CHOOSE g : Is(g)
<1>1. CASE top = 0
  BY <1>1 DEF FlattenSeq
<1>2. CASE top # 0
  <2>1. FlattenSeq(seqs) = G[top]
    BY <1>2 DEF FlattenSeq
  <2>2. <<>> \in S /\ \A s \in S : <<>> \o s = s
    OBVIOUS
  <2>3. ASSUME NEW x \in Nat \X S PROVE F[x] \in S
    <3>1. x[2] \in S
      OBVIOUS
    <3>2. CASE x[1] \in 1..top
      <4>1. seqs[x[1]] \in S
        BY <3>2
      <4>2. x[2] \o seqs[x[1]] \in S
        BY <3>1, <4>1
      <4>3. QED
        BY <3>2, <4>2
    <3>3. CASE x[1] \notin 1..top
      BY <3>1, <3>3
    <3>4. QED
      BY <3>2, <3>3
  <2>4. StaysIn(F, S)
    BY <2>3 DEF StaysIn
  <2>5. ASSUME NEW n \in 1..top, NEW s \in S PROVE F[<<n, s>>] = s \o seqs[n]
    <3>1. <<n, s>> \in Nat \X S /\ <<n, s>>[1] = n /\ <<n, s>>[2] = s
      OBVIOUS
    <3>2. QED
      BY <3>1
  <2>6. \A n \in 1..top : seqs[n] \in S
    OBVIOUS
  <2> HIDE DEF S, F
  <2>7. PICK f : Recursive(f, S, <<>>, F)
    BY ONLY <2>2, <2>4, Recursion
  <2>8. f \in [Nat -> S] /\ f[0] = <<>>
    BY ONLY <2>7 DEF Recursive
  <2>9. ASSUME NEW n \in 1..top PROVE f[n] = f[n - 1] \o seqs[n]
    <3>1. n \in Nat \ {0} /\ n - 1 \in Nat
      OBVIOUS
    <3>2. f[n - 1] \in S /\ f[n] = F[<<n, f[n - 1]>>]
      BY ONLY <2>7, <3>1 DEF Recursive
    <3>3. QED
      BY ONLY <2>5, <3>2, n \in 1..top
  <2> DEFINE D == [i \in 1..top |-> f[i]]
  <2>10. Is(D)
    <3>1. ASSUME NEW i \in 1..top
          PROVE  f[i] = IF i = 1 THEN seqs[i] ELSE D[i - 1] \o seqs[i]
      <4>1. CASE i = 1
        <5>1. f[i] = f[i - 1] \o seqs[i] /\ seqs[i] \in S
          BY ONLY <2>6, <2>9, i \in 1..top
        <5>2. f[i - 1] = <<>>
          BY ONLY <2>8, <4>1
        <5>3. QED
          BY ONLY <2>2, <4>1, <5>1, <5>2
      <4>2. CASE i # 1
        <5>1. i - 1 \in 1..top
          BY <4>2
        <5>2. QED
          BY <2>9, <4>2, <5>1
      <4>3. QED
        BY <4>1, <4>2
    <3>2. QED
      BY <3>1
  <2>11. Is(G)
    BY ONLY <2>10
  <2> HIDE DEF G
  <2> DEFINE Wrong == {i \in 1..top : G[i] \notin S}
  <2>12. Wrong = {}
    <3> SUFFICES ASSUME Wrong # {} PROVE FALSE
      OBVIOUS
    <3>1. PICK i \in Wrong : \A j \in Wrong : i <= j
      BY ONLY Wrong # {}, Wrong \in SUBSET Nat, LeastOf
    <3>2. i # 1
      BY <2>6, <2>11, <3>1
    <3>3. i \in 1..top /\ i - 1 \in 1..top /\ i - 1 < i
      BY <3>1, <3>2
    <3>4. G[i - 1] \in S
      BY <3>1, <3>3
    <3>5. seqs[i] \in S /\ G[i] = G[i - 1] \o seqs[i]
      BY ONLY <2>6, <2>11, <3>2, <3>3
    <3>6. G[i] \in S
      BY ONLY <3>4, <3>5 DEF S
    <3>7. QED
      BY <3>1, <3>6
  <2>13. QED
    BY <1>2, <2>1, <2>12 DEF S
<1>3. QED
  BY <1>1, <1>2

\* The text of a format.
LEMMA SprintfIs ==
    ASSUME NEW fmt, Format(fmt)
    PROVE  sprintf(fmt) = Text(fmt) /\ Text(fmt) \in Seq(Characters)
<1> DEFINE seqs == [i \in DOMAIN fmt |-> Meaning(fmt[i])]
           top  == Len(fmt)
<1>1. top \in Nat /\ DOMAIN fmt = 1..top /\ \A i \in DOMAIN fmt : Argument(fmt[i])
  BY DEF Format
<1>2. \A i \in DOMAIN fmt :
        converted(fmt[i]) = Meaning(fmt[i]) /\ Meaning(fmt[i]) \in Seq(Characters)
  BY <1>1, ConvertedIs
<1>3. sprintf(fmt) = FlattenSeq(seqs) /\ Text(fmt) = FlattenSeq(seqs)
  <2>1. [i \in DOMAIN fmt |-> converted(fmt[i])] = seqs
    BY <1>2
  <2>2. QED
    BY <2>1 DEF sprintf, Text
<1>4. seqs \in Seq(Seq(Characters)) /\ Len(seqs) = top
  BY <1>1, <1>2
<1>5. \A i \in 1..top : seqs[i] \in Seq(Characters)
  BY <1>1, <1>2
<1>6. top = 0 => seqs = <<>>
  BY <1>4
<1> HIDE DEF seqs, top
<1>7. FlattenSeq(seqs) \in Seq(Characters)
  BY ONLY <1>1, <1>4, <1>5, <1>6, FlattenIsText
<1>8. QED
  BY <1>3, <1>7

-----------------------------------------------------------------------------
(* What the section shows.                                                  *)

\* The row of the section the last row of a page is on, and the cursor behind it.
RowOf(rows) == (IF Len(rows) > max_rows THEN max_rows ELSE Len(rows)) - 1
CursorAt(rows) == col = Len(Last(rows)) /\ row = RowOf(rows)
ShowsOn(s, rows) == \A p \in Section : s[p] = Colour(rows, p)
Shows(rows) == ShowsOn(screen, rows)

\* Does character c end the last row of a page, and the page without the row it begins?
Ends(rows, c) == c = Newline \/ Len(Last(rows)) + 1 = max_cols
Ended(rows, c) == IF c = Newline THEN rows ELSE Longer(rows, c)

\* Is w between the end of a row and the scroll?
EndsRow(w) == \/ writer[w].at \in {"row", "store_row", "scroll"}
              \/ At(w, "check") /\ writer[w].own

\* Writer w is about to print c, or at it, on a section that showed these rows.
InPlace(w, rows, c) ==
    /\ At(w, "char") \/ At(w, "draw") => Shows(rows) /\ CursorAt(rows)
    /\ At(w, "draw") => /\ writer[w].px = startX + col * FONT_WIDTH
                        /\ writer[w].py = startY + row * FONT_HEIGHT
    /\ writer[w].at \in {"draw", "col", "store_col", "wrap"} => c # Newline
    /\ writer[w].at \in {"col", "store_col", "wrap"} => Shows(Longer(rows, c)) /\ row = RowOf(rows)
    /\ At(w, "col") \/ At(w, "store_col") => col = Len(Last(rows))
    /\ At(w, "store_col") => writer[w].reg = col + 1
    /\ At(w, "wrap") => col = Len(Last(rows)) + 1 /\ writer[w].reg = col
    /\ At(w, "check") /\ ~writer[w].own =>
          ~Ends(rows, c) /\ Shows(Longer(rows, c)) /\ CursorAt(Longer(rows, c))
    /\ EndsRow(w) \/ At(w, "settle") => Ends(rows, c) /\ col = 0
    /\ EndsRow(w) => Shows(Ended(rows, c))
    /\ At(w, "row") \/ At(w, "store_row") => row = RowOf(rows)
    /\ At(w, "store_row") => writer[w].reg = row + 1
    /\ At(w, "check") /\ writer[w].own => row = RowOf(rows) + 1 /\ writer[w].reg = row
    /\ At(w, "scroll") \/ At(w, "settle") => RowOf(rows) + 1 = max_rows
    /\ At(w, "settle") => Shows(Append(Ended(rows, c), <<>>))
    /\ writer[w].own => At(w, "check")

\* Rows that fit the section, with room on the last one.
Pages ==
    {rows \in Seq(Seq(Characters)) :
        /\ rows # <<>> /\ Len(Last(rows)) < max_cols
        /\ \A i \in 1..Len(rows) : Len(rows[i]) <= max_cols}

\* The empty page.
LEMMA FirstPage == <<<<>>>> \in Pages
<1>1. <<<<>>>> \in Seq(Seq(Characters)) /\ Len(<<<<>>>>) = 1 /\ <<<<>>>>[1] = <<>>
  OBVIOUS
<1>2. Len(<<>>) = 0 /\ <<<<>>>> # <<>>
  OBVIOUS
<1>3. QED
  BY <1>1, <1>2, SectionSize DEF Pages, Last

\* A page with a character more on its last row.
LEMMA LongerIs ==
    ASSUME NEW rows \in Seq(Seq(Characters)), rows # <<>>, NEW c \in Characters
    PROVE  /\ Longer(rows, c) \in Seq(Seq(Characters)) /\ Longer(rows, c) # <<>>
           /\ Len(Longer(rows, c)) = Len(rows) /\ Len(rows) \in Nat \ {0}
           /\ \A i \in 1..Len(rows) : i # Len(rows) => Longer(rows, c)[i] = rows[i]
           /\ Longer(rows, c)[Len(rows)] = Append(Last(rows), c)
           /\ Last(rows) \in Seq(Characters)
           /\ Len(Last(Longer(rows, c))) = Len(Last(rows)) + 1
<1>1. Len(rows) \in Nat \ {0} /\ Last(rows) \in Seq(Characters) /\ Last(rows) = rows[Len(rows)]
  BY DEF Last
<1>2. Longer(rows, c) = [rows EXCEPT ![Len(rows)] = Append(Last(rows), c)]
  BY ONLY <1>1 DEF Longer
<1>3. Append(Last(rows), c) \in Seq(Characters)
  BY ONLY <1>1, c \in Characters
<1>4. /\ Longer(rows, c) \in Seq(Seq(Characters)) /\ Len(Longer(rows, c)) = Len(rows)
      /\ \A i \in 1..Len(rows) :
            Longer(rows, c)[i] = IF i = Len(rows) THEN Append(Last(rows), c) ELSE rows[i]
  BY <1>1, <1>2, <1>3
<1>5. Longer(rows, c)[Len(rows)] = Append(Last(rows), c)
  <2>1. Len(rows) \in 1..Len(rows)
    BY <1>1
  <2>2. QED
    BY ONLY <1>4, <2>1
<1>6. Last(Longer(rows, c)) = Append(Last(rows), c)
  BY <1>4, <1>5 DEF Last
<1>7. Len(Append(Last(rows), c)) = Len(Last(rows)) + 1
  BY ONLY <1>1, c \in Characters
<1>8. Longer(rows, c) # <<>>
  BY <1>1, <1>4
<1>9. QED
  BY ONLY <1>1, <1>4, <1>5, <1>6, <1>7, <1>8

\* A page after one more character.
LEMMA NextRowIs ==
    ASSUME NEW rows \in Pages, NEW c \in Characters
    PROVE  /\ NextRow(rows, c) = IF Ends(rows, c) THEN Append(Ended(rows, c), <<>>)
                                 ELSE Longer(rows, c)
           /\ NextRow(rows, c) \in Pages
<1>1. /\ rows \in Seq(Seq(Characters)) /\ rows # <<>> /\ Len(Last(rows)) < max_cols
      /\ \A i \in 1..Len(rows) : Len(rows[i]) <= max_cols
  BY DEF Pages
<1> DEFINE longer == Longer(rows, c)
<1>2. /\ longer \in Seq(Seq(Characters)) /\ longer # <<>>
      /\ Len(longer) = Len(rows) /\ Len(rows) \in Nat \ {0}
      /\ \A i \in 1..Len(rows) : i # Len(rows) => longer[i] = rows[i]
      /\ longer[Len(rows)] = Append(Last(rows), c) /\ Last(rows) \in Seq(Characters)
      /\ Len(Last(longer)) = Len(Last(rows)) + 1
  BY ONLY <1>1, LongerIs, c \in Characters
<1> HIDE DEF longer
<1>3. NextRow(rows, c) = IF Ends(rows, c) THEN Append(Ended(rows, c), <<>>) ELSE longer
  BY ONLY <1>2 DEF NextRow, Ends, Ended, longer
<1>4. Len(Last(rows)) \in Nat /\ max_cols \in Nat /\ max_cols >= 1
  BY <1>2, SectionSize
<1>5. longer[Len(rows)] = Last(longer)
  BY <1>2 DEF Last
<1>6. \A i \in 1..Len(longer) : Len(longer[i]) <= max_cols
  <2> TAKE i \in 1..Len(longer)
  <2>1. CASE i = Len(rows)
    BY ONLY <1>1, <1>2, <1>4, <1>5, <2>1
  <2>2. CASE i # Len(rows)
    BY ONLY <1>1, <1>2, <2>2, i \in 1..Len(longer)
  <2>3. QED
    BY <2>1, <2>2
<1>7. ASSUME NEW page \in Seq(Seq(Characters)), \A i \in 1..Len(page) : Len(page[i]) <= max_cols
      PROVE  Append(page, <<>>) \in Pages
  <2> DEFINE more == Append(page, <<>>)
  <2>1. /\ more \in Seq(Seq(Characters)) /\ Len(more) = Len(page) + 1 /\ Len(page) \in Nat
        /\ \A i \in 1..Len(more) : more[i] = IF i = Len(page) + 1 THEN <<>> ELSE page[i]
    BY <1>7
  <2>2. Len(<<>>) = 0
    OBVIOUS
  <2> HIDE DEF more
  <2>3. more # <<>> /\ Last(more) = <<>>
    BY <2>1 DEF Last
  <2>4. ASSUME NEW i \in 1..Len(more) PROVE Len(more[i]) <= max_cols
    <3>1. CASE i = Len(page) + 1
      BY ONLY <1>4, <2>1, <2>2, <3>1, i \in 1..Len(more)
    <3>2. CASE i # Len(page) + 1
      <4>1. i \in 1..Len(page) /\ more[i] = page[i]
        BY <2>1, <3>2
      <4>2. QED
        BY ONLY <1>7, <4>1
    <3>3. QED
      BY <3>1, <3>2
  <2>5. more \in Pages
    BY ONLY <1>4, <2>1, <2>2, <2>3, <2>4 DEF Pages
  <2>6. QED
    BY <2>5 DEF more
<1>8. CASE c = Newline
  BY <1>1, <1>3, <1>7, <1>8 DEF Ends, Ended
<1>9. CASE c # Newline /\ Ends(rows, c)
  BY <1>2, <1>3, <1>6, <1>7, <1>9 DEF Ended, longer
<1>10. CASE ~Ends(rows, c)
  <2>1. Len(Last(longer)) < max_cols
    BY <1>1, <1>2, <1>4, <1>10 DEF Ends
  <2>2. QED
    BY ONLY <1>2, <1>3, <1>6, <1>10, <2>1 DEF Pages, longer
<1>11. QED
  BY <1>3, <1>8, <1>9, <1>10 DEF longer

\* The pages a text goes through, character by character.
Pagination(f, text) ==
    /\ Rows(text) = f[Len(text)] /\ f[0] = <<<<>>>>
    /\ \A n \in 0..Len(text) : f[n] \in Pages
    /\ \A n \in 1..Len(text) : f[n] = NextRow(f[n - 1], text[n])

\* There are such pages, and they are those of Rows.
LEMMA Paginated ==
    ASSUME NEW text \in Seq(Characters)
    PROVE  \E f : Pagination(f, text)
<1> DEFINE top == Len(text)
           F == [x \in Nat \X Pages |-> IF x[1] \in 1..top THEN NextRow(x[2], text[x[1]])
                                        ELSE x[2]]
           Is(g) == g = [n \in 0..top |-> IF n = 0 THEN <<<<>>>> ELSE NextRow(g[n - 1], text[n])]
           G == CHOOSE g : Is(g)
<1>1. top \in Nat /\ \A n \in 1..top : text[n] \in Characters
  OBVIOUS
<1>2. Rows(text) = G[top]
  BY DEF Rows
<1>3. ASSUME NEW x \in Nat \X Pages PROVE F[x] \in Pages
  <2>1. CASE x[1] \in 1..top
    BY ONLY <1>1, <2>1, NextRowIs, x \in Nat \X Pages
  <2>2. CASE x[1] \notin 1..top
    BY ONLY <2>2, x \in Nat \X Pages
  <2>3. QED
    BY <2>1, <2>2
<1>4. StaysIn(F, Pages)
  BY <1>3 DEF StaysIn
<1>5. ASSUME NEW n \in 1..top, NEW rows \in Pages PROVE F[<<n, rows>>] = NextRow(rows, text[n])
  <2>1. <<n, rows>> \in Nat \X Pages /\ <<n, rows>>[1] = n /\ <<n, rows>>[2] = rows
    BY <1>1
  <2>2. QED
    BY ONLY <2>1, n \in 1..top
<1> HIDE DEF F, top
<1>6. PICK f : Recursive(f, Pages, <<<<>>>>, F)
  BY ONLY <1>4, Recursion, FirstPage
<1>7. f \in [Nat -> Pages] /\ f[0] = <<<<>>>>
  BY ONLY <1>6 DEF Recursive
<1>8. ASSUME NEW n \in 1..top PROVE f[n] = NextRow(f[n - 1], text[n])
  <2>1. n \in Nat \ {0} /\ n - 1 \in Nat
    BY <1>1
  <2>2. f[n - 1] \in Pages /\ f[n] = F[<<n, f[n - 1]>>]
    BY ONLY <1>6, <2>1 DEF Recursive
  <2>3. QED
    BY ONLY <1>5, <2>2, n \in 1..top
<1> DEFINE D == [n \in 0..top |-> f[n]]
<1>9. Is(D)
  <2>1. ASSUME NEW n \in 0..top
        PROVE  f[n] = IF n = 0 THEN <<<<>>>> ELSE NextRow(D[n - 1], text[n])
    <3>1. CASE n = 0
      BY <1>7, <3>1
    <3>2. CASE n # 0
      <4>1. n \in 1..top /\ n - 1 \in 0..top
        BY <1>1, <3>2
      <4>2. D[n - 1] = f[n - 1]
        BY <4>1
      <4>3. QED
        BY ONLY <1>8, <3>2, <4>1, <4>2
    <3>3. QED
      BY <3>1, <3>2
  <2>2. QED
    BY <2>1
<1>10. Is(G)
  BY ONLY <1>9
<1> HIDE DEF G
<1>11. \A n \in 0..top : G[n] = f[n]
  <2>1. f[0] = G[0] /\ Follows(f, F, top) /\ ValuesIn(f, Pages, top)
    <3>1. G[0] = <<<<>>>>
      BY <1>1, <1>10
    <3>2. Follows(f, F, top)
      <4>1. ASSUME NEW n \in 1..top PROVE f[n] = F[<<n, f[n - 1]>>]
        <5>1. n \in Nat \ {0}
          BY <1>1
        <5>2. QED
          BY ONLY <1>6, <5>1 DEF Recursive
      <4>2. QED
        BY ONLY <4>1 DEF Follows
    <3>3. QED
      BY <1>1, <1>7, <3>1, <3>2 DEF ValuesIn
  <2>2. FollowsIn(Pages, G, F, top)
    <3>1. ASSUME NEW n \in 1..top, G[n - 1] \in Pages PROVE G[n] = F[<<n, G[n - 1]>>]
      <4>1. n \in 0..top /\ n # 0
        BY <1>1
      <4>2. G[n] = NextRow(G[n - 1], text[n])
        BY ONLY <1>10, <4>1
      <4>3. QED
        BY ONLY <1>5, <3>1, <4>2, n \in 1..top
    <3>2. QED
      BY ONLY <3>1 DEF FollowsIn
  <2>3. QED
    BY ONLY <1>1, <2>1, <2>2, SameRecursion
<1>12. Rows(text) = f[top]
  BY <1>1, <1>2, <1>11
<1>13. \A n \in 0..top : f[n] \in Pages
  BY <1>1, <1>7
<1>14. Pagination(f, text)
  BY ONLY <1>7, <1>8, <1>12, <1>13 DEF Pagination, top
<1>15. QED
  BY ONLY <1>14

LEMMA RowsIs ==
    ASSUME NEW text \in Seq(Characters)
    PROVE  Rows(text) \in Pages
<1>1. PICK f : Pagination(f, text)
  BY ONLY Paginated, text \in Seq(Characters)
<1>2. Len(text) \in 0..Len(text)
  OBVIOUS
<1>3. QED
  BY ONLY <1>1, <1>2 DEF Pagination

LEMMA RowsOfNothing == Rows(<<>>) = <<<<>>>>
<1>1. <<>> \in Seq(Characters) /\ Len(<<>>) = 0
  OBVIOUS
<1>2. PICK f : Pagination(f, <<>>)
  BY ONLY <1>1, Paginated
<1>3. QED
  BY ONLY <1>1, <1>2 DEF Pagination

\* A character more is a row, or a part of one, more.
LEMMA RowsOfMore ==
    ASSUME NEW text \in Seq(Characters), NEW c \in Characters
    PROVE  Rows(Append(text, c)) = NextRow(Rows(text), c)
<1> DEFINE top  == Len(text)
           more == Append(text, c)
<1>1. /\ top \in Nat /\ more \in Seq(Characters) /\ Len(more) = top + 1
      /\ more[top + 1] = c /\ \A n \in 1..top : more[n] = text[n]
  OBVIOUS
<1> HIDE DEF top, more
<1>2. PICK f : Pagination(f, text)
  BY ONLY Paginated, text \in Seq(Characters)
<1>3. PICK g : Pagination(g, more)
  BY ONLY <1>1, Paginated
<1>4. /\ Rows(text) = f[top] /\ f[0] = <<<<>>>>
      /\ \A n \in 1..top : f[n] = NextRow(f[n - 1], text[n])
  BY ONLY <1>2 DEF Pagination, top
<1>5. /\ Rows(more) = g[top + 1] /\ g[0] = <<<<>>>>
      /\ \A n \in 1..(top + 1) : g[n] = NextRow(g[n - 1], more[n])
  BY ONLY <1>1, <1>3 DEF Pagination
<1> DEFINE Wrong == {n \in 0..top : g[n] # f[n]}
<1>6. Wrong = {}
  <2> SUFFICES ASSUME Wrong # {} PROVE FALSE
    OBVIOUS
  <2>1. Wrong \in SUBSET Nat
    BY <1>1
  <2>2. PICK n \in Wrong : \A m \in Wrong : n <= m
    BY ONLY <2>1, Wrong # {}, LeastOf
  <2>3. n # 0
    BY <1>4, <1>5, <2>2
  <2>4. n \in 1..top /\ n \in 1..(top + 1) /\ n - 1 \in 0..top /\ n - 1 < n
    BY <1>1, <2>2, <2>3
  <2>5. g[n - 1] = f[n - 1]
    BY <2>1, <2>2, <2>4
  <2>6. g[n] = f[n]
    BY ONLY <1>1, <1>4, <1>5, <2>4, <2>5
  <2>7. QED
    BY <2>2, <2>6
<1>7. g[top] = f[top]
  BY <1>1, <1>6
<1>8. top + 1 \in 1..(top + 1) /\ (top + 1) - 1 = top
  BY <1>1
<1>9. g[top + 1] = NextRow(g[top], c)
  BY ONLY <1>1, <1>5, <1>8
<1>10. QED
  BY ONLY <1>4, <1>5, <1>7, <1>9 DEF more

\* The colour of the pixel at dx, dy in the cell at row i and column j.
Ink(rows, i, j, dx, dy) ==
    LET first == IF Len(rows) > max_rows THEN Len(rows) - max_rows ELSE 0
        r == first + i + 1
    IN  IF r > Len(rows) \/ r - first > max_rows THEN Blank
        ELSE IF j + 1 > Len(rows[r]) THEN Blank
        ELSE IF rows[r][j + 1] \in Unprintable THEN Blank
        ELSE Glyph(rows[r][j + 1], dx, dy)

\* Where a pixel of the section is.
Down(p)   == (p[2] - startY) \div FONT_HEIGHT
Across(p) == (p[1] - startX) \div FONT_WIDTH
Dx(p)     == (p[1] - startX) % FONT_WIDTH
Dy(p)     == (p[2] - startY) % FONT_HEIGHT

\* A pixel has the colour of its place in its cell.
LEMMA ColourIs ==
    ASSUME NEW p, NEW rows
    PROVE  Colour(rows, p) = Ink(rows, Down(p), Across(p), Dx(p), Dy(p))
  BY DEF Colour, Ink, Down, Across, Dx, Dy

\* The cell of a pixel is one of the section's.
LEMMA PixelIs ==
    ASSUME NEW p \in Section
    PROVE  /\ p \in Screen /\ p[1] \in startX..(endX - 1) /\ p[2] \in startY..(endY - 1)
           /\ p[1] - startX \in Nat /\ p[2] - startY \in Nat /\ p[1] \in Nat /\ p[2] \in Nat
           /\ Down(p) \in Nat /\ Across(p) \in Nat
<1>1. p[1] \in startX..(endX - 1) /\ p[2] \in startY..(endY - 1) /\ p = <<p[1], p[2]>>
  BY DEF Section
<1>2. /\ startX \in Nat /\ startY \in Nat /\ endX \in Nat /\ endY \in Nat
      /\ endX <= WIDTH /\ endY <= HEIGHT
  BY SectionSize, ConsoleAssumption DEF endX, endY
<1>3. p[1] \in 0..(WIDTH - 1) /\ p[2] \in 0..(HEIGHT - 1)
  <2>1. WIDTH \in Nat /\ HEIGHT \in Nat
    BY ConsoleAssumption
  <2>2. QED
    BY ONLY <1>1, <1>2, <2>1
<1>4. p \in Screen
  BY <1>1, <1>3 DEF Screen
<1>5. p[1] - startX \in Nat /\ p[2] - startY \in Nat /\ p[1] \in Nat /\ p[2] \in Nat
  BY <1>1, <1>2
<1>6. Down(p) \in Nat /\ Across(p) \in Nat
  BY ONLY <1>5, Quotient, ConsoleAssumption DEF Down, Across
<1>7. QED
  BY <1>1, <1>4, <1>5, <1>6

\* A pixel is in a cell exactly when it is among the cell's pixels.
LEMMA InCell ==
    ASSUME NEW x \in Nat, NEW d \in Nat \ {0}, NEW k \in Nat
    PROVE  /\ x \div d = k <=> x \in (k * d)..(k * d + d - 1)
           /\ x \div d = k => x % d = x - k * d
<1>1. /\ x \div d \in Nat /\ x % d \in 0..(d - 1) /\ x = (x \div d) * d + (x % d)
  BY ONLY Quotient, x \in Nat, d \in Nat \ {0}
<1>2. k * d \in Nat
  OBVIOUS
<1>3. ASSUME x \div d = k PROVE x \in (k * d)..(k * d + d - 1) /\ x % d = x - k * d
  BY <1>1, <1>3, <1>2
<1>4. ASSUME x \in (k * d)..(k * d + d - 1) PROVE x \div d = k
  <2>1. x - k * d \in 0..(d - 1) /\ k * d + (x - k * d) = x
    BY <1>1, <1>4, <1>2
  <2>2. (k * d + (x - k * d)) \div d = k
    BY ONLY <2>1, QuotientIs, k \in Nat, d \in Nat \ {0}
  <2>3. QED
    BY <2>1, <2>2
<1>5. QED
  BY <1>3, <1>4

\* One page has a cell more than the other: the one behind the last character.
LEMMA InkOfLonger ==
    ASSUME NEW rows \in Pages, NEW c \in Characters, NEW i \in Nat, NEW j \in Nat, NEW dx, NEW dy
    PROVE  IF i = RowOf(rows) /\ j = Len(Last(rows))
           THEN /\ Ink(rows, i, j, dx, dy) = Blank
                /\ Ink(Longer(rows, c), i, j, dx, dy)
                     = IF c \in Unprintable THEN Blank ELSE Glyph(c, dx, dy)
           ELSE Ink(Longer(rows, c), i, j, dx, dy) = Ink(rows, i, j, dx, dy)
<1> DEFINE n == Len(rows)
           l == Len(Last(rows))
           longer == Longer(rows, c)
           first == IF n > max_rows THEN n - max_rows ELSE 0
           r == first + i + 1
<1>1. rows \in Seq(Seq(Characters)) /\ rows # <<>> /\ max_rows \in Nat \ {0}
  BY SectionSize DEF Pages
<1>2. /\ Len(longer) = n /\ n \in Nat \ {0}
      /\ \A k \in 1..n : k # n => longer[k] = rows[k]
      /\ longer[n] = Append(Last(rows), c) /\ Last(rows) \in Seq(Characters)
  BY ONLY <1>1, LongerIs, c \in Characters
<1>3. /\ Len(Append(Last(rows), c)) = l + 1 /\ l \in Nat /\ Append(Last(rows), c)[l + 1] = c
      /\ \A k \in 1..l : Append(Last(rows), c)[k] = Last(rows)[k]
  BY ONLY <1>2, c \in Characters
<1>4. rows[n] = Last(rows)
  BY DEF Last
<1>5. /\ Ink(rows, i, j, dx, dy) =
            IF r > n \/ r - first > max_rows THEN Blank
            ELSE IF j + 1 > Len(rows[r]) THEN Blank
            ELSE IF rows[r][j + 1] \in Unprintable THEN Blank
            ELSE Glyph(rows[r][j + 1], dx, dy)
      /\ Ink(longer, i, j, dx, dy) =
            IF r > n \/ r - first > max_rows THEN Blank
            ELSE IF j + 1 > Len(longer[r]) THEN Blank
            ELSE IF longer[r][j + 1] \in Unprintable THEN Blank
            ELSE Glyph(longer[r][j + 1], dx, dy)
  BY ONLY <1>2 DEF Ink
<1>6. /\ first \in Nat /\ r \in Nat \ {0} /\ r = first + i + 1
      /\ first + RowOf(rows) + 1 = n /\ RowOf(rows) + 1 <= max_rows /\ RowOf(rows) \in Nat
  BY <1>1, <1>2 DEF RowOf
<1> HIDE DEF n, l, longer, first, r
<1>7. i = RowOf(rows) <=> r = n
  BY ONLY <1>2, <1>6, i \in Nat
<1>8. CASE r = n
  <2>1. ~(r > n \/ r - first > max_rows)
    BY ONLY <1>1, <1>2, <1>6, <1>7, <1>8, i \in Nat
  <2>2. CASE j = l
    <3>1. j + 1 > Len(rows[r]) /\ ~(j + 1 > Len(longer[r])) /\ longer[r][j + 1] = c
      BY <1>2, <1>3, <1>4, <1>8, <2>2 DEF l
    <3>2. QED
      BY ONLY <1>5, <1>7, <1>8, <2>1, <2>2, <3>1 DEF l, longer
  <2>3. CASE j # l
    <3>1. (j + 1 > Len(rows[r])) <=> (j + 1 > Len(longer[r]))
      BY <1>2, <1>3, <1>4, <1>8, <2>3 DEF l
    <3>2. j + 1 <= Len(rows[r]) => longer[r][j + 1] = rows[r][j + 1]
      BY <1>2, <1>3, <1>4, <1>8, <2>3 DEF l
    <3>3. Len(rows[r]) \in Nat
      BY <1>3, <1>4, <1>8 DEF l
    <3>4. Ink(longer, i, j, dx, dy) = Ink(rows, i, j, dx, dy)
      BY ONLY <1>5, <2>1, <3>1, <3>2, <3>3, j \in Nat
    <3>5. QED
      BY ONLY <2>3, <3>4 DEF l, longer
  <2>4. QED
    BY <2>2, <2>3
<1>9. CASE r # n
  <2>1. r > n \/ longer[r] = rows[r]
    BY ONLY <1>2, <1>6, <1>9
  <2>2. Ink(longer, i, j, dx, dy) = Ink(rows, i, j, dx, dy)
    BY ONLY <1>5, <2>1
  <2>3. QED
    BY ONLY <1>7, <1>9, <2>2 DEF longer
<1>10. QED
  BY <1>8, <1>9

\* An empty row more: nothing to see as long as there is room, and one row up when
\* there is none.
LEMMA InkOfMore ==
    ASSUME NEW rows \in Seq(Seq(Characters)), NEW i \in Nat, NEW j \in Nat, NEW dx, NEW dy
    PROVE  /\ Len(rows) < max_rows =>
                Ink(Append(rows, <<>>), i, j, dx, dy) = Ink(rows, i, j, dx, dy)
           /\ Len(rows) >= max_rows =>
                Ink(Append(rows, <<>>), i, j, dx, dy) = Ink(rows, i + 1, j, dx, dy)
           /\ Len(rows) >= max_rows /\ i >= max_rows - 1 =>
                Ink(Append(rows, <<>>), i, j, dx, dy) = Blank
<1> DEFINE n == Len(rows)
           more == Append(rows, <<>>)
           first == IF n > max_rows THEN n - max_rows ELSE 0
           later == IF n + 1 > max_rows THEN n + 1 - max_rows ELSE 0
           r == first + i + 1
           s == later + i + 1
           t == first + (i + 1) + 1
<1>1. /\ n \in Nat /\ Len(more) = n + 1 /\ more[n + 1] = <<>> /\ max_rows \in Nat \ {0}
      /\ \A k \in 1..n : more[k] = rows[k]
  BY SectionSize
<1>2. Ink(rows, i, j, dx, dy) =
        IF r > n \/ r - first > max_rows THEN Blank
        ELSE IF j + 1 > Len(rows[r]) THEN Blank
        ELSE IF rows[r][j + 1] \in Unprintable THEN Blank
        ELSE Glyph(rows[r][j + 1], dx, dy)
  BY ONLY DEF Ink
<1>3. Ink(rows, i + 1, j, dx, dy) =
        IF t > n \/ t - first > max_rows THEN Blank
        ELSE IF j + 1 > Len(rows[t]) THEN Blank
        ELSE IF rows[t][j + 1] \in Unprintable THEN Blank
        ELSE Glyph(rows[t][j + 1], dx, dy)
  BY ONLY DEF Ink
<1>4. Ink(more, i, j, dx, dy) =
        IF s > n + 1 \/ s - later > max_rows THEN Blank
        ELSE IF j + 1 > Len(more[s]) THEN Blank
        ELSE IF more[s][j + 1] \in Unprintable THEN Blank
        ELSE Glyph(more[s][j + 1], dx, dy)
  <2> HIDE DEF more, n
  <2>1. Len(more) = n + 1 /\ n \in Nat /\ max_rows \in Nat /\ i \in Nat
    BY ONLY <1>1, i \in Nat
  <2>2. QED
    BY ONLY <2>1 DEF Ink
<1>5. s = n + 1 => Ink(more, i, j, dx, dy) = Blank
  <2>1. s = n + 1 => j + 1 > Len(more[s])
    BY <1>1
  <2>2. QED
    BY ONLY <1>4, <2>1
<1>6. /\ first \in Nat /\ later \in Nat /\ r = first + i + 1 /\ s = later + i + 1
      /\ t = first + i + 2
      /\ n < max_rows => first = 0 /\ later = 0
      /\ n >= max_rows => first = n - max_rows /\ later = first + 1
  <2> HIDE DEF n
  <2>1. n \in Nat /\ max_rows \in Nat \ {0} /\ i \in Nat
    BY ONLY <1>1, i \in Nat
  <2>2. QED
    BY ONLY <2>1
<1>7. more[s] = rows[s] \/ s > n
  BY <1>1, <1>6
<1> HIDE DEF n, more, first, later, r, s, t
<1>8. ASSUME n < max_rows PROVE Ink(more, i, j, dx, dy) = Ink(rows, i, j, dx, dy)
  <2>1. s = r /\ later = first /\ r \in Nat /\ r - first = i + 1
    BY ONLY <1>1, <1>6, <1>8, i \in Nat
  <2>2. CASE s <= n
    BY ONLY <1>1, <1>2, <1>3, <1>4, <1>7, <2>1, <2>2
  <2>3. CASE s = n + 1
    BY ONLY <1>1, <1>2, <1>3, <1>4, <1>5, <2>1, <2>3
  <2>4. CASE s > n + 1
    BY ONLY <1>1, <1>2, <1>3, <1>4, <2>1, <2>4
  <2>5. QED
    BY ONLY <1>1, <2>1, <2>2, <2>3, <2>4
<1>9. ASSUME n >= max_rows PROVE Ink(more, i, j, dx, dy) = Ink(rows, i + 1, j, dx, dy)
  <2>1. /\ s = t /\ s \in Nat /\ later \in Nat /\ first \in Nat
        /\ (s > n <=> t - first > max_rows) /\ (s > n + 1 <=> s - later > max_rows)
    BY ONLY <1>1, <1>6, <1>9, i \in Nat
  <2>2. CASE s <= n
    BY ONLY <1>1, <1>2, <1>3, <1>4, <1>7, <2>1, <2>2
  <2>3. CASE s = n + 1
    BY ONLY <1>1, <1>2, <1>3, <1>4, <1>5, <2>1, <2>3
  <2>4. CASE s > n + 1
    BY ONLY <1>1, <1>2, <1>3, <1>4, <2>1, <2>4
  <2>5. QED
    BY ONLY <1>1, <2>1, <2>2, <2>3, <2>4
<1>10. ASSUME n >= max_rows, i >= max_rows - 1 PROVE Ink(more, i, j, dx, dy) = Blank
  <2>1. s >= n + 1 /\ s \in Nat
    BY ONLY <1>1, <1>6, <1>10, i \in Nat
  <2>2. QED
    BY ONLY <1>1, <1>2, <1>3, <1>4, <1>5, <2>1
<1>11. QED
  BY <1>8, <1>9, <1>10 DEF n, more

\* A glyph drawn at the cursor shows the row with its character more.
LEMMA DrawShows ==
    ASSUME NEW rows \in Pages, NEW c \in Characters, NEW s, ShowsOn(s, rows), NEW px, NEW py,
           px = startX + Len(Last(rows)) * FONT_WIDTH, py = startY + RowOf(rows) * FONT_HEIGHT
    PROVE  ShowsOn(draw_char(s, px, py, c), Longer(rows, c))
<1> DEFINE j == Len(Last(rows))
           i == RowOf(rows)
<1>1. /\ rows \in Seq(Seq(Characters)) /\ rows # <<>> /\ max_rows \in Nat \ {0}
      /\ FONT_WIDTH \in Nat \ {0} /\ FONT_HEIGHT \in Nat \ {0}
      /\ startX \in Nat /\ startY \in Nat
  BY SectionSize, ConsoleAssumption DEF Pages
<1>2. j \in Nat /\ Len(rows) \in Nat \ {0}
  BY ONLY <1>1, LongerIs, c \in Characters
<1>3. i \in Nat
  BY ONLY <1>1, <1>2 DEF RowOf
<1>4. ASSUME NEW p \in Section PROVE draw_char(s, px, py, c)[p] = Colour(Longer(rows, c), p)
  <2> DEFINE x == p[1] - startX
             y == p[2] - startY
  <2>1. /\ p \in Screen /\ p[1] \in Nat /\ p[2] \in Nat /\ x \in Nat /\ y \in Nat
        /\ Down(p) \in Nat /\ Across(p) \in Nat
    BY PixelIs
  <2> HIDE DEF i, j
  <2>2. px = startX + j * FONT_WIDTH /\ py = startY + i * FONT_HEIGHT
    BY DEF i, j
  <2>3. j * FONT_WIDTH \in Nat /\ i * FONT_HEIGHT \in Nat
    BY ONLY <1>1, <1>2, <1>3
  <2>4. /\ Across(p) = j <=> x \in (j * FONT_WIDTH)..(j * FONT_WIDTH + FONT_WIDTH - 1)
        /\ Across(p) = j => Dx(p) = x - j * FONT_WIDTH
    <3> HIDE DEF x
    <3>1. /\ x \div FONT_WIDTH = j <=> x \in (j * FONT_WIDTH)..(j * FONT_WIDTH + FONT_WIDTH - 1)
          /\ x \div FONT_WIDTH = j => x % FONT_WIDTH = x - j * FONT_WIDTH
      BY ONLY <1>1, <1>2, <2>1, InCell
    <3>2. Across(p) = x \div FONT_WIDTH /\ Dx(p) = x % FONT_WIDTH
      BY ONLY DEF Across, Dx, x
    <3>3. QED
      BY ONLY <3>1, <3>2
  <2>5. /\ Down(p) = i <=> y \in (i * FONT_HEIGHT)..(i * FONT_HEIGHT + FONT_HEIGHT - 1)
        /\ Down(p) = i => Dy(p) = y - i * FONT_HEIGHT
    <3> HIDE DEF y
    <3>1. /\ y \div FONT_HEIGHT = i <=> y \in (i * FONT_HEIGHT)..(i * FONT_HEIGHT + FONT_HEIGHT - 1)
          /\ y \div FONT_HEIGHT = i => y % FONT_HEIGHT = y - i * FONT_HEIGHT
      BY ONLY <1>1, <1>3, <2>1, InCell
    <3>2. Down(p) = y \div FONT_HEIGHT /\ Dy(p) = y % FONT_HEIGHT
      BY ONLY DEF Down, Dy, y
    <3>3. QED
      BY ONLY <3>1, <3>2
  <2> DEFINE a == j * FONT_WIDTH
             b == i * FONT_HEIGHT
  <2>6. /\ Across(p) = j <=> p[1] \in px..(px + FONT_WIDTH - 1)
        /\ Across(p) = j => Dx(p) = p[1] - px
    <3> HIDE DEF a
    <3>1. /\ Across(p) = j <=> p[1] - startX \in a..(a + FONT_WIDTH - 1)
          /\ Across(p) = j => Dx(p) = (p[1] - startX) - a
      BY ONLY <2>4 DEF a
    <3>2. px = startX + a /\ a \in Nat
      BY ONLY <2>2, <2>3 DEF a
    <3>3. /\ p[1] \in (startX + a)..(startX + a + FONT_WIDTH - 1)
                <=> p[1] - startX \in a..(a + FONT_WIDTH - 1)
          /\ p[1] - (startX + a) = (p[1] - startX) - a
      <4> DEFINE q == p[1]
      <4>1. q \in Nat /\ startX \in Nat /\ a \in Nat /\ FONT_WIDTH \in Nat \ {0}
        BY ONLY <1>1, <2>1, <3>2
      <4> HIDE DEF q
      <4>2. /\ q \in (startX + a)..(startX + a + FONT_WIDTH - 1)
                  <=> q - startX \in a..(a + FONT_WIDTH - 1)
            /\ q - (startX + a) = (q - startX) - a
        BY ONLY <4>1
      <4>3. QED
        BY ONLY <4>2 DEF q
    <3>4. QED
      BY ONLY <3>1, <3>2, <3>3
  <2>7. /\ Down(p) = i <=> p[2] \in py..(py + FONT_HEIGHT - 1)
        /\ Down(p) = i => Dy(p) = p[2] - py
    <3> HIDE DEF b
    <3>1. /\ Down(p) = i <=> p[2] - startY \in b..(b + FONT_HEIGHT - 1)
          /\ Down(p) = i => Dy(p) = (p[2] - startY) - b
      BY ONLY <2>5 DEF b
    <3>2. py = startY + b /\ b \in Nat
      BY ONLY <2>2, <2>3 DEF b
    <3>3. /\ p[2] \in (startY + b)..(startY + b + FONT_HEIGHT - 1)
                <=> p[2] - startY \in b..(b + FONT_HEIGHT - 1)
          /\ p[2] - (startY + b) = (p[2] - startY) - b
      <4> DEFINE q == p[2]
      <4>1. q \in Nat /\ startY \in Nat /\ b \in Nat /\ FONT_HEIGHT \in Nat \ {0}
        BY ONLY <1>1, <2>1, <3>2
      <4> HIDE DEF q
      <4>2. /\ q \in (startY + b)..(startY + b + FONT_HEIGHT - 1)
                  <=> q - startY \in b..(b + FONT_HEIGHT - 1)
            /\ q - (startY + b) = (q - startY) - b
        BY ONLY <4>1
      <4>3. QED
        BY ONLY <4>2 DEF q
    <3>4. QED
      BY ONLY <3>1, <3>2, <3>3
  <2>8. draw_char(s, px, py, c)[p] =
            IF c \notin Unprintable /\ Across(p) = j /\ Down(p) = i
            THEN Glyph(c, Dx(p), Dy(p)) ELSE s[p]
    <3>1. draw_char(s, px, py, c)[p] =
            IF /\ c \notin Unprintable
               /\ p[1] \in px..(px + FONT_WIDTH - 1) /\ p[2] \in py..(py + FONT_HEIGHT - 1)
            THEN Glyph(c, p[1] - px, p[2] - py) ELSE s[p]
      BY ONLY <2>1 DEF draw_char
    <3>2. QED
      BY ONLY <2>6, <2>7, <3>1
  <2>9. s[p] = Ink(rows, Down(p), Across(p), Dx(p), Dy(p))
    BY ColourIs DEF ShowsOn
  <2>10. IF Down(p) = i /\ Across(p) = j
         THEN /\ Ink(rows, Down(p), Across(p), Dx(p), Dy(p)) = Blank
              /\ Ink(Longer(rows, c), Down(p), Across(p), Dx(p), Dy(p))
                   = IF c \in Unprintable THEN Blank ELSE Glyph(c, Dx(p), Dy(p))
         ELSE Ink(Longer(rows, c), Down(p), Across(p), Dx(p), Dy(p))
                = Ink(rows, Down(p), Across(p), Dx(p), Dy(p))
    BY ONLY <2>1, InkOfLonger, rows \in Pages, c \in Characters DEF i, j
  <2>11. QED
    BY ONLY <2>8, <2>9, <2>10, ColourIs
<1>5. QED
  BY ONLY <1>4 DEF ShowsOn

\* An empty row below the others does not show.
LEMMA MoreShows ==
    ASSUME NEW rows \in Seq(Seq(Characters)), Len(rows) < max_rows, NEW s, ShowsOn(s, rows)
    PROVE  ShowsOn(s, Append(rows, <<>>))
<1> SUFFICES ASSUME NEW p \in Section PROVE s[p] = Colour(Append(rows, <<>>), p)
  BY DEF ShowsOn
<1>1. Down(p) \in Nat /\ Across(p) \in Nat
  BY PixelIs
<1>2. Ink(Append(rows, <<>>), Down(p), Across(p), Dx(p), Dy(p))
        = Ink(rows, Down(p), Across(p), Dx(p), Dy(p))
  BY ONLY <1>1, InkOfMore, Len(rows) < max_rows, rows \in Seq(Seq(Characters))
<1>3. s[p] = Colour(rows, p)
  BY DEF ShowsOn
<1>4. QED
  BY ONLY <1>2, <1>3, ColourIs

\* The scroll.
LEMMA ScrollShows ==
    ASSUME NEW rows \in Seq(Seq(Characters)), Len(rows) >= max_rows, NEW s, ShowsOn(s, rows)
    PROVE  ShowsOn(scrolled(s), Append(rows, <<>>))
<1> SUFFICES ASSUME NEW p \in Section PROVE scrolled(s)[p] = Colour(Append(rows, <<>>), p)
  BY DEF ShowsOn
<1> DEFINE y == p[2] - startY
<1>1. /\ p \in Screen /\ p[1] \in startX..(endX - 1) /\ p[2] \in startY..(endY - 1)
      /\ p[2] \in Nat /\ y \in Nat /\ Down(p) \in Nat /\ Across(p) \in Nat
  BY PixelIs
<1>2. /\ startX \in Nat /\ startY \in Nat /\ endX \in Nat /\ endY \in Nat
      /\ FONT_HEIGHT \in Nat \ {0} /\ max_rows \in Nat \ {0}
      /\ startY + max_rows * FONT_HEIGHT <= endY
  BY SectionSize, ConsoleAssumption
<1>3. scrolled(s)[p] =
        IF p[2] \in startY..(endY - FONT_HEIGHT - 1) THEN s[<<p[1], p[2] + FONT_HEIGHT>>]
        ELSE IF p[2] \in (endY - FONT_HEIGHT)..(endY - 1) THEN Blank ELSE s[p]
  BY ONLY <1>1 DEF scrolled
<1>4. /\ Ink(Append(rows, <<>>), Down(p), Across(p), Dx(p), Dy(p))
           = Ink(rows, Down(p) + 1, Across(p), Dx(p), Dy(p))
      /\ Down(p) >= max_rows - 1 =>
           Ink(Append(rows, <<>>), Down(p), Across(p), Dx(p), Dy(p)) = Blank
  BY ONLY <1>1, InkOfMore, Len(rows) >= max_rows, rows \in Seq(Seq(Characters))
<1>5. CASE p[2] \in startY..(endY - FONT_HEIGHT - 1)
  <2> DEFINE q == <<p[1], p[2] + FONT_HEIGHT>>
  <2>1. q[1] = p[1] /\ q[2] = p[2] + FONT_HEIGHT
    OBVIOUS
  <2>2. q[2] \in startY..(endY - 1)
    <3>1. startY \in Nat /\ endY \in Nat /\ FONT_HEIGHT \in Nat /\ p[2] \in Nat
      BY ONLY <1>1, <1>2
    <3>2. QED
      BY ONLY <1>5, <2>1, <3>1
  <2>3. q \in Section
    BY ONLY <1>1, <2>1, <2>2 DEF Section
  <2>4. Down(q) = Down(p) + 1 /\ Dy(q) = Dy(p)
    <3> DEFINE k == y \div FONT_HEIGHT
               r == y % FONT_HEIGHT
    <3>1. k \in Nat /\ r \in 0..(FONT_HEIGHT - 1) /\ y = k * FONT_HEIGHT + r
      BY ONLY <1>1, <1>2, Quotient
    <3>2. q[2] - startY = y + FONT_HEIGHT
      BY ONLY <1>1, <1>2, <2>1
    <3>3. Down(p) = k /\ Dy(p) = r
      BY ONLY DEF Down, Dy
    <3> HIDE DEF k, r, y
    <3>4. y + FONT_HEIGHT = (k + 1) * FONT_HEIGHT + r /\ k + 1 \in Nat
      <4>1. (k + 1) * FONT_HEIGHT = k * FONT_HEIGHT + FONT_HEIGHT /\ k * FONT_HEIGHT \in Nat
        BY ONLY <1>2, <3>1
      <4>2. QED
        BY ONLY <1>2, <3>1, <4>1
    <3>5. (y + FONT_HEIGHT) \div FONT_HEIGHT = k + 1 /\ (y + FONT_HEIGHT) % FONT_HEIGHT = r
      <4> DEFINE m == k + 1
      <4>1. m \in Nat /\ y + FONT_HEIGHT = m * FONT_HEIGHT + r
        BY ONLY <3>4
      <4> HIDE DEF m
      <4>2. (m * FONT_HEIGHT + r) \div FONT_HEIGHT = m /\ (m * FONT_HEIGHT + r) % FONT_HEIGHT = r
        BY ONLY <1>2, <3>1, <4>1, QuotientIs
      <4>3. QED
        BY ONLY <4>1, <4>2 DEF m
    <3>6. QED
      BY ONLY <3>2, <3>3, <3>5 DEF Down, Dy
  <2>5. Across(q) = Across(p) /\ Dx(q) = Dx(p)
    BY ONLY <2>1 DEF Across, Dx
  <2>6. s[q] = Colour(rows, q)
    BY <2>3 DEF ShowsOn
  <2>7. s[q] = Ink(rows, Down(p) + 1, Across(p), Dx(p), Dy(p))
    BY ONLY <2>4, <2>5, <2>6, ColourIs
  <2>8. QED
    BY ONLY <1>3, <1>4, <1>5, <2>7, ColourIs
<1>6. CASE p[2] \notin startY..(endY - FONT_HEIGHT - 1)
  <2>1. p[2] \in (endY - FONT_HEIGHT)..(endY - 1)
    BY ONLY <1>1, <1>2, <1>6
  <2>2. Down(p) >= max_rows - 1
    <3>1. Down(p) = y \div FONT_HEIGHT
      BY DEF Down
    <3>2. y \div FONT_HEIGHT \in Nat /\ y % FONT_HEIGHT \in 0..(FONT_HEIGHT - 1)
          /\ y = (y \div FONT_HEIGHT) * FONT_HEIGHT + (y % FONT_HEIGHT)
      BY ONLY <1>1, <1>2, Quotient
    <3> DEFINE k == y \div FONT_HEIGHT
    <3> HIDE DEF k
    <3>3. k \in Nat /\ y < k * FONT_HEIGHT + FONT_HEIGHT /\ k * FONT_HEIGHT \in Nat
      <4>1. k \in Nat
        BY ONLY <3>2 DEF k
      <4>2. k * FONT_HEIGHT \in Nat
        BY ONLY <1>2, <4>1
      <4>3. y = k * FONT_HEIGHT + (y % FONT_HEIGHT)
        BY ONLY <3>2 DEF k
      <4>4. QED
        BY ONLY <1>1, <1>2, <3>2, <4>1, <4>2, <4>3
    <3>4. y >= max_rows * FONT_HEIGHT - FONT_HEIGHT /\ max_rows * FONT_HEIGHT \in Nat
      <4>1. max_rows * FONT_HEIGHT \in Nat
        BY ONLY <1>2
      <4>2. QED
        BY ONLY <1>1, <1>2, <2>1, <4>1
    <3>5. ~(k + 2 <= max_rows)
      <4> SUFFICES ASSUME k + 2 <= max_rows PROVE FALSE
        OBVIOUS
      <4>1. (k + 2) * FONT_HEIGHT <= max_rows * FONT_HEIGHT
        BY ONLY <1>2, <3>3, k + 2 <= max_rows
      <4>2. (k + 2) * FONT_HEIGHT = k * FONT_HEIGHT + FONT_HEIGHT + FONT_HEIGHT
        BY ONLY <1>2, <3>3
      <4> DEFINE low == k * FONT_HEIGHT
                 all == max_rows * FONT_HEIGHT
      <4>3. /\ low \in Nat /\ all \in Nat /\ low + FONT_HEIGHT + FONT_HEIGHT <= all
            /\ y < low + FONT_HEIGHT /\ y >= all - FONT_HEIGHT
        BY ONLY <3>3, <3>4, <4>1, <4>2
      <4> HIDE DEF low, all, y
      <4>4. QED
        BY ONLY <1>1, <1>2, <4>3
    <3>6. k >= max_rows - 1
      BY ONLY <1>2, <3>3, <3>5
    <3>7. QED
      BY ONLY <3>1, <3>6 DEF k
  <2>3. QED
    BY ONLY <1>3, <1>4, <1>6, <2>1, <2>2, ColourIs
<1>7. QED
  BY ONLY <1>5, <1>6

\* Pictures that leave the section blank.
Colours  == {Blank, Line} \cup {Glyph(c, dx, dy) : c \in Characters, dx \in Int, dy \in Int}
Pictures == {s \in [Screen -> Colours] : \A p \in Section : s[p] = Blank}

\* A glyph of the title does not reach the section, and the frame does not either.
LEMMA TitleStaysAbove ==
    ASSUME NEW s \in Pictures, NEW px \in Int, NEW c \in Characters
    PROVE  draw_char(s, px, FONT_HEIGHT \div 2, c) \in Pictures
<1> DEFINE py == FONT_HEIGHT \div 2
           t  == draw_char(s, px, py, c)
<1>1. FONT_HEIGHT \in Nat \ {0} /\ py \in Nat /\ py <= FONT_HEIGHT /\ startY = 2 * FONT_HEIGHT
  BY ConsoleAssumption DEF startY
<1> HIDE DEF py
<1>2. t = [p \in Screen |->
            IF /\ c \notin Unprintable
               /\ p[1] \in px..(px + FONT_WIDTH - 1) /\ p[2] \in py..(py + FONT_HEIGHT - 1)
            THEN Glyph(c, p[1] - px, p[2] - py) ELSE s[p]]
  BY ONLY DEF draw_char
<1> HIDE DEF t
<1>3. ASSUME NEW p \in Screen PROVE t[p] \in Colours
  <2>1. p[1] \in Int /\ p[2] \in Int
    BY ConsoleAssumption DEF Screen
  <2>2. s[p] \in Colours
    BY DEF Pictures
  <2>3. p[1] - px \in Int /\ p[2] - py \in Int
    BY ONLY <1>1, <2>1, px \in Int
  <2>4. Glyph(c, p[1] - px, p[2] - py) \in Colours
    BY ONLY <2>3, c \in Characters DEF Colours
  <2>5. QED
    BY ONLY <1>2, <2>2, <2>4, p \in Screen
<1>4. ASSUME NEW p \in Section PROVE t[p] = Blank
  <2>1. p \in Screen /\ p[2] \in Nat /\ p[2] \in startY..(endY - 1)
    BY PixelIs
  <2>2. p[2] \notin py..(py + FONT_HEIGHT - 1)
    BY ONLY <1>1, <2>1
  <2>3. s[p] = Blank
    BY DEF Pictures
  <2>4. QED
    BY ONLY <1>2, <2>1, <2>2, <2>3
<1>5. t \in Pictures
  BY ONLY <1>2, <1>3, <1>4 DEF Pictures
<1>6. QED
  BY ONLY <1>5 DEF t, py

LEMMA FrameStaysOutside ==
    [p \in Screen |-> IF p \in Frame THEN Line ELSE Blank] \in Pictures
<1> DEFINE framed == [p \in Screen |-> IF p \in Frame THEN Line ELSE Blank]
<1>1. ASSUME NEW p \in Section PROVE framed[p] = Blank
  <2>1. /\ p \in Screen /\ p[1] \in startX..(endX - 1) /\ p[2] \in startY..(endY - 1)
        /\ p[1] \in Nat /\ p[2] \in Nat
    BY PixelIs
  <2>2. p[1] \notin {FONT_WIDTH, WIDTH - FONT_WIDTH} /\ p[2] \notin {FONT_HEIGHT, HEIGHT - FONT_HEIGHT}
    <3>1. /\ WIDTH \in Nat /\ HEIGHT \in Nat /\ FONT_WIDTH \in Nat \ {0} /\ FONT_HEIGHT \in Nat \ {0}
      BY ConsoleAssumption
    <3>2. QED
      BY ONLY <2>1, <3>1 DEF startX, startY, endX, endY
  <2>3. p \notin Frame
    BY ONLY <2>2 DEF Frame
  <2>4. QED
    BY ONLY <2>1, <2>3
<1>2. framed \in [Screen -> Colours]
  BY DEF Colours
<1>3. QED
  BY ONLY <1>1, <1>2 DEF Pictures

\* The frame and the title leave the section as blank as an empty text shows it.
LEMMA DecoratedIsBlank == Decorated \in Pictures
<1> DEFINE x0 == WIDTH \div 2 - ((Len(Title) + 1) * FONT_WIDTH) \div 2
           framed == [p \in Screen |-> IF p \in Frame THEN Line ELSE Blank]
           top == Len(Title)
           drawn(s, i) == draw_char(s, x0 + (i - 1) * FONT_WIDTH, FONT_HEIGHT \div 2, Title[i])
           F == [x \in Nat \X Pictures |-> IF x[1] \in 1..top THEN drawn(x[2], x[1]) ELSE x[2]]
           Is(g) == g = [i \in 0..top |-> IF i = 0 THEN framed ELSE drawn(g[i - 1], i)]
           G == CHOOSE g : Is(g)
<1>1. top \in Nat /\ (\A i \in 1..top : Title[i] \in Characters) /\ x0 \in Int /\ FONT_WIDTH \in Nat
  <2>1. Title \in Seq(Characters) /\ FONT_WIDTH \in Nat /\ WIDTH \in Nat
    BY ConsoleAssumption
  <2>2. top \in Nat /\ \A i \in 1..top : Title[i] \in Characters
    BY ONLY <2>1
  <2>3. (top + 1) * FONT_WIDTH \in Nat
    BY ONLY <2>1, <2>2
  <2>4. QED
    BY ONLY <2>1, <2>2, <2>3
<1>2. Decorated = G[top]
  BY DEF Decorated
<1>3. ASSUME NEW i \in 1..top, NEW s \in Pictures PROVE drawn(s, i) \in Pictures
  <2>1. (i - 1) * FONT_WIDTH \in Int
    BY ONLY <1>1, i \in 1..top
  <2>2. x0 + (i - 1) * FONT_WIDTH \in Int
    BY ONLY <1>1, <2>1
  <2>3. Title[i] \in Characters
    BY ONLY <1>1, i \in 1..top
  <2>4. QED
    BY ONLY <2>2, <2>3, TitleStaysAbove, s \in Pictures
<1> HIDE DEF drawn, framed, top
<1>4. ASSUME NEW x \in Nat \X Pictures PROVE F[x] \in Pictures
  <2>1. CASE x[1] \in 1..top
    BY ONLY <1>3, <2>1, x \in Nat \X Pictures
  <2>2. CASE x[1] \notin 1..top
    BY ONLY <2>2, x \in Nat \X Pictures
  <2>3. QED
    BY <2>1, <2>2
<1>5. StaysIn(F, Pictures)
  BY <1>4 DEF StaysIn
<1>6. ASSUME NEW i \in 1..top, NEW s \in Pictures PROVE F[<<i, s>>] = drawn(s, i)
  <2>1. <<i, s>> \in Nat \X Pictures /\ <<i, s>>[1] = i /\ <<i, s>>[2] = s
    BY <1>1
  <2>2. QED
    BY ONLY <2>1, i \in 1..top
<1> HIDE DEF F
<1>7. framed \in Pictures
  BY FrameStaysOutside DEF framed
<1>8. PICK f : Recursive(f, Pictures, framed, F)
  BY ONLY <1>5, <1>7, Recursion
<1>9. f \in [Nat -> Pictures] /\ f[0] = framed
  BY ONLY <1>8 DEF Recursive
<1>10. ASSUME NEW i \in 1..top PROVE f[i] = drawn(f[i - 1], i)
  <2>1. i \in Nat \ {0} /\ i - 1 \in Nat
    BY <1>1
  <2>2. f[i - 1] \in Pictures /\ f[i] = F[<<i, f[i - 1]>>]
    BY ONLY <1>8, <2>1 DEF Recursive
  <2>3. QED
    BY ONLY <1>6, <2>2, i \in 1..top
<1> DEFINE D == [i \in 0..top |-> f[i]]
<1>11. Is(D)
  <2>1. ASSUME NEW i \in 0..top PROVE f[i] = IF i = 0 THEN framed ELSE drawn(D[i - 1], i)
    <3>1. CASE i = 0
      BY <1>9, <3>1
    <3>2. CASE i # 0
      <4>1. i \in 1..top /\ i - 1 \in 0..top
        BY <1>1, <3>2
      <4>2. D[i - 1] = f[i - 1]
        BY <4>1
      <4>3. QED
        BY ONLY <1>10, <3>2, <4>1, <4>2
    <3>3. QED
      BY <3>1, <3>2
  <2>2. QED
    BY <2>1
<1>12. Is(G)
  BY ONLY <1>11
<1> HIDE DEF G
<1> DEFINE Wrong == {i \in 0..top : G[i] \notin Pictures}
<1>13. Wrong = {}
  <2> SUFFICES ASSUME Wrong # {} PROVE FALSE
    OBVIOUS
  <2>1. Wrong \in SUBSET Nat
    BY <1>1
  <2>2. PICK i \in Wrong : \A k \in Wrong : i <= k
    BY ONLY <2>1, Wrong # {}, LeastOf
  <2>3. i # 0
    BY <1>7, <1>12, <2>2
  <2>4. i \in 1..top /\ i \in 0..top /\ i - 1 \in 0..top /\ i - 1 < i
    BY <1>1, <2>2, <2>3
  <2>5. G[i - 1] \in Pictures
    BY <2>1, <2>2, <2>4
  <2>6. G[i] = drawn(G[i - 1], i)
    BY ONLY <1>12, <2>3, <2>4
  <2>7. G[i] \in Pictures
    BY ONLY <1>3, <2>4, <2>5, <2>6
  <2>8. QED
    BY <2>2, <2>7
<1>14. QED
  BY <1>1, <1>2, <1>13

LEMMA DecoratedShows == ShowsOn(Decorated, <<<<>>>>)
<1> SUFFICES ASSUME NEW p \in Section PROVE Decorated[p] = Colour(<<<<>>>>, p)
  BY DEF ShowsOn
<1>1. Decorated[p] = Blank
  BY DecoratedIsBlank DEF Pictures
<1> DEFINE rows == <<<<>>>>
           i == Down(p)
           j == Across(p)
<1>2. i \in Nat /\ j \in Nat /\ max_rows \in Nat \ {0} /\ Len(rows) = 1 /\ Len(rows[1]) = 0
  BY PixelIs, SectionSize
<1> HIDE DEF rows, i, j
<1>3. Ink(rows, i, j, Dx(p), Dy(p)) = Blank
  <2>1. CASE i = 0
    BY ONLY <1>2, <2>1 DEF Ink
  <2>2. CASE i # 0
    BY ONLY <1>2, <2>2 DEF Ink
  <2>3. QED
    BY <2>1, <2>2
<1>4. QED
  BY ONLY <1>1, <1>3, ColourIs DEF rows, i, j

-----------------------------------------------------------------------------
(* The text.                                                                *)

\* The text so far, when no prints have overlapped: nobody else prints, and the
\* section shows all of the log but what the one who prints has left.
Alone == \A v, w \in Writers : v # w => At(v, "idle") \/ At(w, "idle")

\* Writer w is at the character that follows the part of the log that is done.
Written(w) ==
    \E done \in Seq(Characters) :
        /\ writer[w].text \in Seq(Characters) /\ writer[w].text # <<>>
        /\ log = done \o writer[w].text
        /\ InPlace(w, Rows(done), Head(writer[w].text))

Undisturbed ==
    /\ log \in Seq(Characters) /\ Alone
    /\ Quiet => Shows(Rows(log)) /\ CursorAt(Rows(log))
    /\ \A w \in Writers : ~At(w, "idle") => Written(w)

\* Before the screen is set up main prints to the serial port, all at once.
OnlySerial ==
    /\ Quiet /\ ~mixed /\ (port => serial = log)
    /\ printed["main"] \in Nat /\ (printed["main"] = 0 => serial = <<>> /\ log = <<>>)

TextInv ==
    /\ printed["main"] \in Nat /\ DOMAIN printed = Writers
    /\ ~initialized => OnlySerial
    /\ initialized /\ ~mixed => Undisturbed

\* What the invariant asks of the steps of kputchar: that each keeps track of the
\* character it is at,
LEMMA SameChar ==
    ASSUME TextInv, NEW w \in Writers, ~At(w, "idle"), Moves(w),
           UNCHANGED <<setup, log, mixed, printed>>,
           writer'[w].at # "idle", writer'[w].text = writer[w].text,
           \A rows \in Pages, c \in Characters :
              c = Head(writer[w].text) /\ InPlace(w, rows, c) => InPlace(w, rows, c)'
    PROVE  TextInv'
<1>1. /\ initialized' = initialized /\ port' = port /\ serial' = serial
      /\ log' = log /\ mixed' = mixed /\ printed' = printed
      /\ \A v \in Writers \ {w} : writer'[v] = writer[v]
  BY DEF setup, Moves
<1>2. initialized
  BY DEF TextInv, OnlySerial, Quiet, At
<1>3. ASSUME ~mixed PROVE Undisturbed'
  <2>1. log \in Seq(Characters) /\ Alone /\ Written(w)
    BY <1>2, <1>3 DEF TextInv, Undisturbed
  <2>2. \A v \in Writers \ {w} : At(v, "idle") /\ At(v, "idle")'
    BY <1>1, <2>1 DEF Alone, At
  <2>3. Alone' /\ ~Quiet'
    BY <2>2 DEF Alone, Quiet, At
  <2>4. PICK done \in Seq(Characters) :
          /\ writer[w].text \in Seq(Characters) /\ writer[w].text # <<>>
          /\ log = done \o writer[w].text
          /\ InPlace(w, Rows(done), Head(writer[w].text))
    BY <2>1 DEF Written
  <2>5. Rows(done) \in Pages /\ Head(writer[w].text) \in Characters
    BY <2>4, RowsIs
  <2> DEFINE c == Head(writer[w].text)
             rows == Rows(done)
  <2>6. c = Head(writer[w].text) /\ c = Head(writer'[w].text)
    BY ONLY writer'[w].text = writer[w].text
  <2>7. InPlace(w, rows, Head(writer[w].text))'
    <3>1. PICK k : k = c
      OBVIOUS
    <3>2. InPlace(w, rows, k)'
      BY <2>4, <2>5, <3>1
    <3>3. k = Head(writer'[w].text)
      BY ONLY <2>6, <3>1
    <3>4. QED
      BY ONLY <3>2, <3>3
  <2>8. Written(w)'
    BY <1>1, <2>4, <2>7 DEF Written
  <2>9. QED
    BY <1>1, <2>1, <2>2, <2>3, <2>8 DEF Undisturbed
<1>4. QED
  BY ONLY <1>1, <1>2, <1>3, TextInv DEF TextInv

\* A character moves from what is left to what is done.
LEMMA OneMore ==
    ASSUME NEW S, NEW done \in Seq(S), NEW text \in Seq(S), text # <<>>
    PROVE  /\ Head(text) \in S /\ Append(done, Head(text)) \in Seq(S) /\ Tail(text) \in Seq(S)
           /\ done \o text = Append(done, Head(text)) \o Tail(text)
           /\ Tail(text) = <<>> => done \o text = Append(done, Head(text))
<1>1. Head(text) \in S /\ Append(done, Head(text)) \in Seq(S) /\ Tail(text) \in Seq(S)
  OBVIOUS
<1>2. done \o text \in Seq(S) /\ Append(done, Head(text)) \o Tail(text) \in Seq(S)
  BY <1>1
<1>3. done \o text = Append(done, Head(text)) \o Tail(text)
  <2> DEFINE a == done \o text
             b == Append(done, Head(text)) \o Tail(text)
  <2>1. Len(a) = Len(b)
    BY <1>1
  <2>2. ASSUME NEW i \in 1..Len(a) PROVE a[i] = b[i]
    BY <1>1
  <2>3. QED
    BY ONLY <1>2, <2>1, <2>2, SeqEqual
<1>4. Tail(text) = <<>> => done \o text = Append(done, Head(text))
  BY <1>1, <1>3
<1>5. QED
  BY <1>1, <1>3, <1>4

\* and that the last one leaves the section showing it.
LEMMA CharDone ==
    ASSUME TextInv, NEW w \in Writers, ~At(w, "idle"), Moves(w),
           UNCHANGED <<setup, log, mixed, printed>>,
           writer'[w] = Printing(Tail(writer[w].text)),
           \A rows \in Pages, c \in Characters :
              c = Head(writer[w].text) /\ InPlace(w, rows, c) =>
                 (Shows(NextRow(rows, c)) /\ CursorAt(NextRow(rows, c)))'
    PROVE  TextInv'
<1>1. /\ initialized' = initialized /\ port' = port /\ serial' = serial
      /\ log' = log /\ mixed' = mixed /\ printed' = printed
      /\ \A v \in Writers \ {w} : writer'[v] = writer[v]
  BY DEF setup, Moves
<1>2. initialized
  BY DEF TextInv, OnlySerial, Quiet, At
<1>3. ASSUME ~mixed PROVE Undisturbed'
  <2>1. log \in Seq(Characters) /\ Alone /\ Written(w)
    BY <1>2, <1>3 DEF TextInv, Undisturbed
  <2>2. \A v \in Writers \ {w} : At(v, "idle") /\ At(v, "idle")'
    BY <1>1, <2>1 DEF Alone, At
  <2>3. Alone'
    BY <2>2 DEF Alone
  <2>4. PICK done \in Seq(Characters) :
          /\ writer[w].text \in Seq(Characters) /\ writer[w].text # <<>>
          /\ log = done \o writer[w].text
          /\ InPlace(w, Rows(done), Head(writer[w].text))
    BY <2>1 DEF Written
  <2>5. PICK rest : rest = Tail(writer[w].text)
    OBVIOUS
  <2>6. PICK c : c = Head(writer[w].text)
    OBVIOUS
  <2>7. PICK more : more = Append(done, c)
    OBVIOUS
  <2>8. /\ c \in Characters /\ more \in Seq(Characters) /\ rest \in Seq(Characters)
        /\ log = more \o rest /\ (rest = <<>> => log = more)
    <3>1. PICK text : text = writer[w].text
      OBVIOUS
    <3>2. done \in Seq(Characters) /\ text \in Seq(Characters) /\ text # <<>>
      BY ONLY <2>4, <3>1
    <3>3. /\ Head(text) \in Characters /\ Append(done, Head(text)) \in Seq(Characters)
          /\ Tail(text) \in Seq(Characters)
          /\ done \o text = Append(done, Head(text)) \o Tail(text)
          /\ Tail(text) = <<>> => done \o text = Append(done, Head(text))
      BY ONLY <3>2, OneMore, SMTT(30)
    <3>4. /\ log = done \o text /\ rest = Tail(text) /\ c = Head(text)
          /\ more = Append(done, Head(text))
      BY ONLY <2>4, <2>5, <2>6, <2>7, <3>1
    <3>5. QED
      BY ONLY <3>3, <3>4
  <2>9. Rows(done) \in Pages /\ Rows(more) = NextRow(Rows(done), c)
    BY ONLY <2>7, <2>8, RowsIs, RowsOfMore, done \in Seq(Characters)
  <2>10. (Shows(Rows(more)) /\ CursorAt(Rows(more)))'
    BY <2>4, <2>6, <2>8, <2>9
  <2>11. CASE rest = <<>>
    <3>1. Quiet'
      BY <2>2, <2>5, <2>11 DEF Quiet, At, Printing, Idle
    <3>2. (Shows(Rows(log)) /\ CursorAt(Rows(log)))'
      BY <1>1, <2>8, <2>10, <2>11
    <3>3. QED
      BY <1>1, <2>1, <2>3, <3>1, <3>2 DEF Undisturbed, Quiet, At
  <2>12. CASE rest # <<>>
    <3>1. writer'[w].at = "char" /\ writer'[w].text = rest /\ writer'[w].own = FALSE
      BY <2>5, <2>12 DEF Printing, Idle
    <3>2. ~Quiet'
      BY <3>1 DEF Quiet, At
    <3>3. ASSUME NEW k PROVE InPlace(w, Rows(more), k)'
      BY <2>10, <3>1 DEF InPlace, EndsRow, At
    <3>4. InPlace(w, Rows(more), Head(writer[w].text))'
      <4>1. PICK k : k = Head(writer'[w].text)
        OBVIOUS
      <4>2. QED
        BY ONLY <3>3, <4>1
    <3>5. Written(w)'
      BY <1>1, <2>8, <2>12, <3>1, <3>4 DEF Written
    <3>6. QED
      BY <1>1, <2>1, <2>2, <2>3, <3>2, <3>5 DEF Undisturbed
  <2>13. QED
    BY <2>11, <2>12
<1>4. QED
  BY ONLY <1>1, <1>2, <1>3, TextInv DEF TextInv

\* A page whose last row c ends.
LEMMA NextPage ==
    ASSUME NEW rows \in Pages, NEW c \in Characters, Ends(rows, c)
    PROVE  /\ Ended(rows, c) \in Seq(Seq(Characters)) /\ Len(Ended(rows, c)) = Len(rows)
           /\ Len(rows) \in Nat \ {0} /\ NextRow(rows, c) = Append(Ended(rows, c), <<>>)
           /\ Len(NextRow(rows, c)) = Len(rows) + 1 /\ Len(Last(NextRow(rows, c))) = 0
           /\ RowOf(rows) + 1 = (IF Len(rows) > max_rows THEN max_rows ELSE Len(rows))
           /\ RowOf(NextRow(rows, c)) =
                 (IF Len(rows) + 1 > max_rows THEN max_rows - 1 ELSE Len(rows))
<1>1. rows \in Seq(Seq(Characters)) /\ rows # <<>> /\ max_rows \in Nat \ {0}
  BY SectionSize DEF Pages
<1>2. NextRow(rows, c) = Append(Ended(rows, c), <<>>)
  BY ONLY NextRowIs, rows \in Pages, c \in Characters, Ends(rows, c)
<1>3. /\ Longer(rows, c) \in Seq(Seq(Characters)) /\ Len(Longer(rows, c)) = Len(rows)
      /\ Len(rows) \in Nat \ {0}
  BY ONLY <1>1, LongerIs, c \in Characters
<1>4. Ended(rows, c) \in Seq(Seq(Characters)) /\ Len(Ended(rows, c)) = Len(rows)
  BY ONLY <1>1, <1>3 DEF Ended
<1>5. PICK page : page = Ended(rows, c)
  OBVIOUS
<1>6. /\ Len(Append(page, <<>>)) = Len(rows) + 1
      /\ Append(page, <<>>)[Len(rows) + 1] = <<>> /\ Len(<<>>) = 0
  BY ONLY <1>3, <1>4, <1>5
<1>7. Len(NextRow(rows, c)) = Len(rows) + 1 /\ Len(Last(NextRow(rows, c))) = 0
  BY ONLY <1>2, <1>5, <1>6 DEF Last
<1>8. RowOf(rows) + 1 = (IF Len(rows) > max_rows THEN max_rows ELSE Len(rows))
  BY ONLY <1>1, <1>3 DEF RowOf
<1>9. RowOf(NextRow(rows, c)) = (IF Len(rows) + 1 > max_rows THEN max_rows - 1 ELSE Len(rows))
  <2>1. RowOf(NextRow(rows, c)) =
          (IF Len(rows) + 1 > max_rows THEN max_rows ELSE Len(rows) + 1) - 1
    BY ONLY <1>7 DEF RowOf
  <2>2. QED
    BY ONLY <1>1, <1>3, <2>1
<1>10. QED
  BY ONLY <1>2, <1>3, <1>4, <1>7, <1>8, <1>9

\* The steps of kputchar keep track of the character (kernel_ui.cpp 46-101).
LEMMA TextStartChar ==
    ASSUME Types, TextInv, NEW w \in Writers, start_char(w)
    PROVE  TextInv'
<1>1. DOMAIN writer[w] = FieldNames /\ At(w, "char") /\ DOMAIN writer = Writers
  BY DEF Types, start_char
<1>2. /\ Moves(w) /\ UNCHANGED <<setup, log, mixed, printed>> /\ ~At(w, "idle")
      /\ row' = row /\ screen' = screen
      /\ writer'[w].text = writer[w].text /\ writer'[w].own = writer[w].own
  BY <1>1 DEF start_char, Goes, Moves, ghost, setup, FieldNames, At
<1>3. \/ /\ Head(writer[w].text) = Newline /\ writer'[w].at = "row" /\ col' = 0
      \/ /\ Head(writer[w].text) # Newline /\ writer'[w].at = "draw" /\ col' = col
         /\ writer'[w].px = startX + col * FONT_WIDTH
         /\ writer'[w].py = startY + row * FONT_HEIGHT
  BY <1>1 DEF start_char, Goes, FieldNames
<1>4. ASSUME NEW rows \in Pages, NEW c \in Characters, c = Head(writer[w].text),
             InPlace(w, rows, c)
      PROVE  InPlace(w, rows, c)'
  <2>1. Shows(rows) /\ CursorAt(rows) /\ ~writer[w].own
    BY <1>1, <1>4 DEF InPlace, At
  <2>2. CASE c = Newline
    BY <1>2, <1>3, <1>4, <2>1, <2>2
       DEF InPlace, EndsRow, At, Shows, CursorAt, Ends, Ended
  <2>3. CASE c # Newline
    BY <1>2, <1>3, <1>4, <2>1, <2>3 DEF InPlace, EndsRow, At, Shows, CursorAt
  <2>4. QED
    BY <2>2, <2>3
<1>5. QED
  BY <1>2, <1>3, <1>4, SameChar

LEMMA TextDraw ==
    ASSUME Types, TextInv, NEW w \in Writers, draw(w)
    PROVE  TextInv'
<1>1. DOMAIN writer[w] = FieldNames /\ At(w, "draw") /\ DOMAIN writer = Writers
  BY DEF Types, draw
<1>2. /\ Moves(w) /\ UNCHANGED <<setup, log, mixed, printed>> /\ ~At(w, "idle")
      /\ row' = row /\ col' = col /\ writer'[w].at = "col"
      /\ writer'[w].text = writer[w].text /\ writer'[w].own = writer[w].own
  BY <1>1 DEF draw, Moves, ghost, setup, cursor, FieldNames, At
<1>3. screen' = draw_char(screen, writer[w].px, writer[w].py, Head(writer[w].text))
  BY DEF draw
<1>4. ASSUME NEW rows \in Pages, NEW c \in Characters, c = Head(writer[w].text),
             InPlace(w, rows, c)
      PROVE  InPlace(w, rows, c)'
  <2>1. /\ Shows(rows) /\ CursorAt(rows) /\ ~writer[w].own /\ c # Newline
        /\ writer[w].px = startX + col * FONT_WIDTH
        /\ writer[w].py = startY + row * FONT_HEIGHT
    BY <1>1, <1>4 DEF InPlace, At
  <2>2. ShowsOn(draw_char(screen, writer[w].px, writer[w].py, c), Longer(rows, c))
    BY <2>1, DrawShows DEF Shows, CursorAt
  <2>3. Shows(Longer(rows, c))'
    BY <1>3, <1>4, <2>2 DEF Shows
  <2>4. QED
    BY <1>2, <2>1, <2>3 DEF InPlace, EndsRow, At, CursorAt
<1>5. QED
  BY <1>2, <1>4, SameChar

LEMMA TextLoadCol ==
    ASSUME Types, TextInv, NEW w \in Writers, load_col(w)
    PROVE  TextInv'
<1>1. DOMAIN writer[w] = FieldNames /\ At(w, "col") /\ DOMAIN writer = Writers
  BY DEF Types, load_col
<1>2. /\ Moves(w) /\ UNCHANGED <<setup, log, mixed, printed>> /\ ~At(w, "idle")
      /\ row' = row /\ col' = col /\ screen' = screen
      /\ writer'[w].at = "store_col" /\ writer'[w].reg = col + 1
      /\ writer'[w].text = writer[w].text /\ writer'[w].own = writer[w].own
  BY <1>1 DEF load_col, Moves, ghost, setup, cursor, FieldNames, At
<1>3. ASSUME NEW rows \in Pages, NEW c \in Characters, c = Head(writer[w].text),
             InPlace(w, rows, c)
      PROVE  InPlace(w, rows, c)'
  BY <1>1, <1>2, <1>3 DEF InPlace, EndsRow, At, Shows
<1>4. QED
  BY <1>2, <1>3, SameChar

LEMMA TextStoreCol ==
    ASSUME Types, TextInv, NEW w \in Writers, store_col(w)
    PROVE  TextInv'
<1>1. DOMAIN writer[w] = FieldNames /\ At(w, "store_col") /\ DOMAIN writer = Writers
  BY DEF Types, store_col
<1>2. /\ Moves(w) /\ UNCHANGED <<setup, log, mixed, printed>> /\ ~At(w, "idle")
      /\ row' = row /\ col' = writer[w].reg /\ screen' = screen
      /\ writer'[w].at = "wrap" /\ writer'[w].reg = writer[w].reg
      /\ writer'[w].text = writer[w].text /\ writer'[w].own = writer[w].own
  BY <1>1 DEF store_col, Goes, Moves, ghost, setup, FieldNames, At
<1>3. ASSUME NEW rows \in Pages, NEW c \in Characters, c = Head(writer[w].text),
             InPlace(w, rows, c)
      PROVE  InPlace(w, rows, c)'
  BY <1>1, <1>2, <1>3 DEF InPlace, EndsRow, At, Shows
<1>4. QED
  BY <1>2, <1>3, SameChar

LEMMA TextWrap ==
    ASSUME Types, TextInv, NEW w \in Writers, wrap(w)
    PROVE  TextInv'
<1>1. DOMAIN writer[w] = FieldNames /\ At(w, "wrap") /\ DOMAIN writer = Writers
  BY DEF Types, wrap
<1>2. /\ Moves(w) /\ UNCHANGED <<setup, log, mixed, printed>> /\ ~At(w, "idle")
      /\ row' = row /\ screen' = screen
      /\ writer'[w].text = writer[w].text /\ writer'[w].own = writer[w].own
  BY <1>1 DEF wrap, Moves, ghost, setup, FieldNames, At
<1>3. PICK seen \in {col, writer[w].reg} :
        \/ past_col(seen) /\ col' = 0 /\ writer'[w].at = "row"
        \/ ~past_col(seen) /\ writer'[w].at = "check" /\ col' = col
  BY <1>1 DEF wrap, FieldNames
<1>4. ASSUME NEW rows \in Pages, NEW c \in Characters, c = Head(writer[w].text),
             InPlace(w, rows, c)
      PROVE  InPlace(w, rows, c)'
  <2>1. /\ Shows(Longer(rows, c)) /\ ~writer[w].own /\ c # Newline
        /\ row = RowOf(rows) /\ col = Len(Last(rows)) + 1 /\ seen = col
    BY <1>1, <1>3, <1>4 DEF InPlace, At
  <2>2. /\ rows \in Seq(Seq(Characters)) /\ rows # <<>> /\ Len(Last(rows)) < max_cols
        /\ max_cols \in Nat
    BY SectionSize DEF Pages
  <2>3. /\ Len(Longer(rows, c)) = Len(rows) /\ Last(rows) \in Seq(Characters)
        /\ Len(Last(Longer(rows, c))) = Len(Last(rows)) + 1
    BY ONLY <2>2, LongerIs, c \in Characters
  <2>4. Len(Last(rows)) \in Nat
    BY ONLY <2>3
  <2>5. past_col(seen) <=> Len(Last(rows)) + 1 = max_cols
    BY ONLY <2>1, <2>2, <2>4 DEF past_col
  <2>6. CASE past_col(seen)
    <3>1. Ends(rows, c) /\ Ended(rows, c) = Longer(rows, c)
      BY ONLY <2>1, <2>5, <2>6 DEF Ends, Ended
    <3>2. writer'[w].at = "row" /\ col' = 0
      BY ONLY <1>3, <2>6
    <3>3. QED
      BY <1>2, <2>1, <3>1, <3>2 DEF InPlace, EndsRow, At, Shows
  <2>7. CASE ~past_col(seen)
    <3>1. ~Ends(rows, c) /\ col = Len(Last(Longer(rows, c))) /\ row = RowOf(Longer(rows, c))
      BY ONLY <2>1, <2>3, <2>5, <2>7 DEF Ends, RowOf
    <3>2. writer'[w].at = "check" /\ col' = col
      BY ONLY <1>3, <2>7
    <3>3. QED
      BY <1>2, <2>1, <3>1, <3>2 DEF InPlace, EndsRow, At, Shows, CursorAt
  <2>8. QED
    BY <2>6, <2>7
<1>5. QED
  BY <1>2, <1>3, <1>4, SameChar

LEMMA TextLoadRow ==
    ASSUME Types, TextInv, NEW w \in Writers, load_row(w)
    PROVE  TextInv'
<1>1. DOMAIN writer[w] = FieldNames /\ At(w, "row") /\ DOMAIN writer = Writers
  BY DEF Types, load_row
<1>2. /\ Moves(w) /\ UNCHANGED <<setup, log, mixed, printed>> /\ ~At(w, "idle")
      /\ row' = row /\ col' = col /\ screen' = screen
      /\ writer'[w].at = "store_row" /\ writer'[w].reg = row + 1
      /\ writer'[w].text = writer[w].text /\ writer'[w].own = writer[w].own
  BY <1>1 DEF load_row, Moves, ghost, setup, cursor, FieldNames, At
<1>3. ASSUME NEW rows \in Pages, NEW c \in Characters, c = Head(writer[w].text),
             InPlace(w, rows, c)
      PROVE  InPlace(w, rows, c)'
  BY <1>1, <1>2, <1>3 DEF InPlace, EndsRow, At, Shows
<1>4. QED
  BY <1>2, <1>3, SameChar

LEMMA TextStoreRow ==
    ASSUME Types, TextInv, NEW w \in Writers, store_row(w)
    PROVE  TextInv'
<1>1. DOMAIN writer[w] = FieldNames /\ At(w, "store_row") /\ DOMAIN writer = Writers
  BY DEF Types, store_row
<1>2. /\ Moves(w) /\ UNCHANGED <<setup, log, mixed, printed>> /\ ~At(w, "idle")
      /\ row' = writer[w].reg /\ col' = col /\ screen' = screen
      /\ writer'[w].at = "check" /\ writer'[w].reg = writer[w].reg
      /\ writer'[w].text = writer[w].text /\ writer'[w].own = TRUE
  BY <1>1 DEF store_row, Moves, ghost, setup, FieldNames, At
<1>3. ASSUME NEW rows \in Pages, NEW c \in Characters, c = Head(writer[w].text),
             InPlace(w, rows, c)
      PROVE  InPlace(w, rows, c)'
  BY <1>1, <1>2, <1>3 DEF InPlace, EndsRow, At, Shows
<1>4. QED
  BY <1>2, <1>3, SameChar

\* Whether the cursor's row is beyond the section, as a writer who has just moved
\* it there, or has not, finds it.
LEMMA RowSeen ==
    ASSUME NEW w \in Writers, At(w, "check"), NEW rows \in Pages, NEW c \in Characters,
           InPlace(w, rows, c), NEW seen \in {row} \cup {r \in {writer[w].reg} : writer[w].own}
    PROVE  /\ seen = row
           /\ row >= max_rows => writer[w].own /\ Ends(rows, c) /\ RowOf(rows) + 1 = max_rows
           /\ row < max_rows => Shows(NextRow(rows, c)) /\ CursorAt(NextRow(rows, c))
<1>1. seen = row
  BY DEF InPlace, At
<1>2. max_rows \in Nat \ {0}
  BY SectionSize
<1>3. CASE writer[w].own
  <2>1. Ends(rows, c) /\ col = 0 /\ Shows(Ended(rows, c)) /\ row = RowOf(rows) + 1
    BY <1>3 DEF InPlace, EndsRow, At
  <2>2. /\ Ended(rows, c) \in Seq(Seq(Characters)) /\ Len(Ended(rows, c)) = Len(rows)
        /\ Len(rows) \in Nat \ {0} /\ NextRow(rows, c) = Append(Ended(rows, c), <<>>)
        /\ Len(Last(NextRow(rows, c))) = 0
        /\ RowOf(rows) + 1 = (IF Len(rows) > max_rows THEN max_rows ELSE Len(rows))
        /\ RowOf(NextRow(rows, c)) =
              (IF Len(rows) + 1 > max_rows THEN max_rows - 1 ELSE Len(rows))
    BY ONLY <2>1, NextPage, rows \in Pages, c \in Characters
  <2>3. row >= max_rows => row = max_rows
    BY ONLY <1>2, <2>1, <2>2
  <2>4. ASSUME row < max_rows
        PROVE  Shows(NextRow(rows, c)) /\ CursorAt(NextRow(rows, c))
    <3>1. Len(rows) < max_rows /\ row = Len(rows) /\ RowOf(NextRow(rows, c)) = Len(rows)
      BY ONLY <1>2, <2>1, <2>2, <2>4
    <3>2. ShowsOn(screen, Append(Ended(rows, c), <<>>))
      BY ONLY <2>1, <2>2, <3>1, MoreShows DEF Shows
    <3>3. QED
      BY ONLY <2>1, <2>2, <3>1, <3>2 DEF Shows, CursorAt
  <2>5. QED
    BY ONLY <1>1, <1>3, <2>1, <2>3, <2>4
<1>4. CASE ~writer[w].own
  <2>1. ~Ends(rows, c) /\ Shows(Longer(rows, c)) /\ CursorAt(Longer(rows, c))
    BY <1>4 DEF InPlace
  <2>2. NextRow(rows, c) = Longer(rows, c)
    BY ONLY <2>1, NextRowIs, rows \in Pages, c \in Characters
  <2>3. Len(Longer(rows, c)) \in Nat \ {0}
    BY ONLY LongerIs, rows \in Pages, c \in Characters DEF Pages
  <2>4. row < max_rows /\ ~ (row >= max_rows)
    BY ONLY <1>2, <2>1, <2>3 DEF CursorAt, RowOf
  <2>5. QED
    BY ONLY <1>1, <2>1, <2>2, <2>4
<1>5. QED
  BY <1>3, <1>4

LEMMA TextCheckRow ==
    ASSUME Types, TextInv, NEW w \in Writers, check_row(w)
    PROVE  TextInv'
<1>1. DOMAIN writer[w] = FieldNames /\ At(w, "check") /\ DOMAIN writer = Writers
  BY DEF Types, check_row
<1>2. /\ UNCHANGED <<setup, log, mixed, printed, raced>> /\ ~At(w, "idle")
      /\ row' = row /\ col' = col /\ screen' = screen
  BY <1>1 DEF check_row, ghost, cursor, At
<1>3. PICK seen \in {row} \cup {r \in {writer[w].reg} : writer[w].own} :
        \/ /\ seen >= max_rows
           /\ writer' = [writer EXCEPT ![w].at = "scroll", ![w].reg = 0, ![w].own = FALSE]
        \/ seen < max_rows /\ NextChar(w)
  BY DEF check_row
<1>4. seen \in Nat /\ max_rows \in Nat
  BY <1>1, SectionSize DEF Types
<1>5. CASE /\ seen >= max_rows
           /\ writer' = [writer EXCEPT ![w].at = "scroll", ![w].reg = 0, ![w].own = FALSE]
  <2>1. /\ Moves(w) /\ writer'[w].at = "scroll" /\ writer'[w].own = FALSE
        /\ writer'[w].text = writer[w].text
    BY <1>1, <1>2, <1>5 DEF Moves, setup, FieldNames
  <2>2. ASSUME NEW rows \in Pages, NEW c \in Characters, c = Head(writer[w].text),
               InPlace(w, rows, c)
        PROVE  InPlace(w, rows, c)'
    <3>1. writer[w].own /\ Ends(rows, c) /\ RowOf(rows) + 1 = max_rows
      BY <1>1, <1>5, <2>2, RowSeen
    <3>2. col = 0 /\ Shows(Ended(rows, c))
      BY <1>1, <2>2, <3>1 DEF InPlace, EndsRow
    <3>3. QED
      BY <1>2, <2>1, <3>1, <3>2 DEF InPlace, EndsRow, At, Shows
  <2>3. QED
    BY <1>2, <2>1, <2>2, SameChar
<1>6. CASE seen < max_rows /\ NextChar(w)
  <2>1. Moves(w) /\ writer'[w] = Printing(Tail(writer[w].text))
    BY <1>1, <1>2, <1>6 DEF NextChar, Moves, setup
  <2>2. ASSUME NEW rows \in Pages, NEW c \in Characters, c = Head(writer[w].text),
               InPlace(w, rows, c)
        PROVE  (Shows(NextRow(rows, c)) /\ CursorAt(NextRow(rows, c)))'
    <3>1. Shows(NextRow(rows, c)) /\ CursorAt(NextRow(rows, c))
      BY <1>1, <1>6, <2>2, RowSeen
    <3>2. QED
      BY <1>2, <3>1 DEF Shows, CursorAt
  <2>3. QED
    BY <1>2, <2>1, <2>2, CharDone
<1>7. QED
  BY <1>3, <1>5, <1>6

LEMMA TextScroll ==
    ASSUME Types, TextInv, NEW w \in Writers, scroll(w)
    PROVE  TextInv'
<1>1. DOMAIN writer[w] = FieldNames /\ At(w, "scroll") /\ DOMAIN writer = Writers
  BY DEF Types, scroll
<1>2. /\ Moves(w) /\ UNCHANGED <<setup, log, mixed, printed>> /\ ~At(w, "idle")
      /\ row' = row /\ col' = col /\ screen' = scrolled(screen)
      /\ writer'[w].at = "settle"
      /\ writer'[w].text = writer[w].text /\ writer'[w].own = writer[w].own
  BY <1>1 DEF scroll, Goes, Moves, ghost, setup, cursor, FieldNames, At
<1>3. ASSUME NEW rows \in Pages, NEW c \in Characters, c = Head(writer[w].text),
             InPlace(w, rows, c)
      PROVE  InPlace(w, rows, c)'
  <2>1. /\ Ends(rows, c) /\ col = 0 /\ Shows(Ended(rows, c)) /\ RowOf(rows) + 1 = max_rows
        /\ ~writer[w].own
    BY <1>1, <1>3 DEF InPlace, EndsRow, At
  <2>2. /\ Ended(rows, c) \in Seq(Seq(Characters)) /\ Len(Ended(rows, c)) = Len(rows)
        /\ Len(rows) \in Nat \ {0} /\ max_rows \in Nat
        /\ RowOf(rows) + 1 = (IF Len(rows) > max_rows THEN max_rows ELSE Len(rows))
    BY ONLY <2>1, NextPage, SectionSize, rows \in Pages, c \in Characters
  <2>3. Len(Ended(rows, c)) >= max_rows
    BY ONLY <2>1, <2>2
  <2>4. ShowsOn(scrolled(screen), Append(Ended(rows, c), <<>>))
    BY ONLY <2>1, <2>2, <2>3, ScrollShows DEF Shows
  <2>5. Shows(Append(Ended(rows, c), <<>>))'
    BY <1>2, <2>4 DEF Shows
  <2>6. QED
    BY <1>2, <2>1, <2>5 DEF InPlace, EndsRow, At
<1>4. QED
  BY <1>2, <1>3, SameChar

LEMMA TextSettle ==
    ASSUME Types, TextInv, NEW w \in Writers, settle(w)
    PROVE  TextInv'
<1>1. DOMAIN writer[w] = FieldNames /\ At(w, "settle") /\ DOMAIN writer = Writers
  BY DEF Types, settle
<1>2. /\ Moves(w) /\ UNCHANGED <<setup, log, mixed, printed>> /\ ~At(w, "idle")
      /\ row' = max_rows - 1 /\ col' = col /\ screen' = screen
      /\ writer'[w] = Printing(Tail(writer[w].text))
  BY <1>1 DEF settle, NextChar, Moves, ghost, setup, At, last_row
<1>3. ASSUME NEW rows \in Pages, NEW c \in Characters, c = Head(writer[w].text),
             InPlace(w, rows, c)
      PROVE  (Shows(NextRow(rows, c)) /\ CursorAt(NextRow(rows, c)))'
  <2>1. /\ Ends(rows, c) /\ col = 0 /\ Shows(Append(Ended(rows, c), <<>>))
        /\ RowOf(rows) + 1 = max_rows
    BY <1>1, <1>3 DEF InPlace, EndsRow, At
  <2>2. /\ Len(rows) \in Nat \ {0} /\ max_rows \in Nat
        /\ NextRow(rows, c) = Append(Ended(rows, c), <<>>)
        /\ Len(Last(NextRow(rows, c))) = 0
        /\ RowOf(rows) + 1 = (IF Len(rows) > max_rows THEN max_rows ELSE Len(rows))
        /\ RowOf(NextRow(rows, c)) =
              (IF Len(rows) + 1 > max_rows THEN max_rows - 1 ELSE Len(rows))
    BY ONLY <2>1, NextPage, SectionSize, rows \in Pages, c \in Characters
  <2>3. RowOf(NextRow(rows, c)) = max_rows - 1
    BY ONLY <2>1, <2>2
  <2>4. QED
    BY <1>2, <2>1, <2>2, <2>3 DEF Shows, CursorAt
<1>4. QED
  BY <1>2, <1>3, CharDone

\* All of kputchar.
LEMMA TextKputchar ==
    ASSUME Types, TextInv, NEW w \in Writers, kputchar(w)
    PROVE  TextInv'
  BY TextStartChar, TextDraw, TextLoadCol, TextStoreCol, TextWrap, TextLoadRow, TextStoreRow,
     TextCheckRow, TextScroll, TextSettle
     DEF kputchar

\* A print begins on a section that shows the log, which its text prolongs.
LEMMA TextBegins ==
    ASSUME Types, TextInv, NEW w \in Writers, NEW m \in Messages[w], kprintf(w, m)
    PROVE  TextInv'
<1>1. initialized /\ At(w, "idle") /\ DOMAIN writer = Writers
  BY DEF Types, kprintf
<1>2. PICK text : text = prefixed(m)
  OBVIOUS
<1>3. /\ writer' = [writer EXCEPT ![w] = Printing(text)]
      /\ mixed' = (mixed \/ ~Quiet)
      /\ log' = IF mixed' THEN <<>> ELSE log \o Prefix[m.type] \o Text(m.fmt)
      /\ printed' = [printed EXCEPT ![w] = @ + 1]
      /\ UNCHANGED <<setup, screen, cursor>>
  BY <1>2 DEF kprintf
<1>4. writer'[w] = Printing(text) /\ \A v \in Writers \ {w} : writer'[v] = writer[v]
  BY ONLY <1>1, <1>3, w \in Writers
<1>5. printed'["main"] \in Nat /\ DOMAIN printed' = Writers /\ initialized'
  <2>1. printed["main"] \in Nat /\ initialized' = initialized
    BY <1>3 DEF TextInv, setup
  <2>2. printed'["main"] = printed["main"] \/ printed'["main"] = printed["main"] + 1
    BY <1>3 DEF TextInv
  <2>3. DOMAIN printed' = Writers
    BY <1>3 DEF TextInv
  <2>4. QED
    BY ONLY <1>1, <2>1, <2>2, <2>3
<1>6. ASSUME ~mixed' PROVE Undisturbed'
  <2>1. ~mixed /\ Quiet
    BY <1>3, <1>6, Zenon
  <2>2. log \in Seq(Characters) /\ Shows(Rows(log)) /\ CursorAt(Rows(log))
    BY <1>1, <2>1 DEF TextInv, Undisturbed
  <2>3. /\ Prefix[m.type] \in Seq(Characters) /\ Text(m.fmt) \in Seq(Characters)
        /\ text = Prefix[m.type] \o Text(m.fmt)
    BY <1>2, MessagesAssumption, SprintfIs DEF prefixed
  <2>4. /\ text \in Seq(Characters) /\ log' = log \o text /\ log' \in Seq(Characters)
        /\ text = <<>> => log' = log
    <3>1. log' = log \o Prefix[m.type] \o Text(m.fmt)
      BY ONLY <1>3, <1>6
    <3>2. PICK a, b : a = Prefix[m.type] /\ b = Text(m.fmt)
      OBVIOUS
    <3>3. a \in Seq(Characters) /\ b \in Seq(Characters) /\ text = a \o b
      BY ONLY <2>3, <3>2
    <3>4. log' = log \o a \o b
      BY ONLY <3>1, <3>2
    <3>5. log \o a \o b = log \o (a \o b)
      BY ONLY <2>2, <3>3
    <3>6. text \in Seq(Characters) /\ log \o text \in Seq(Characters)
      BY ONLY <2>2, <3>3
    <3>7. text = <<>> => log \o text = log
      BY ONLY <2>2
    <3>8. QED
      BY ONLY <3>3, <3>4, <3>5, <3>6, <3>7
  <2>5. \A v \in Writers \ {w} : At(v, "idle")'
    BY <1>4, <2>1 DEF Quiet, At
  <2>6. Alone'
    BY <2>5 DEF Alone
  <2>7. screen' = screen /\ col' = col /\ row' = row
    BY <1>3 DEF cursor
  <2>8. CASE text = <<>>
    <3>1. Quiet'
      BY <1>4, <2>5, <2>8 DEF Quiet, At, Printing, Idle
    <3>2. (Shows(Rows(log)) /\ CursorAt(Rows(log)))'
      BY <2>2, <2>4, <2>7, <2>8 DEF Shows, CursorAt
    <3>3. QED
      BY <2>4, <2>6, <3>1, <3>2 DEF Undisturbed, Quiet, At
  <2>9. CASE text # <<>>
    <3>1. writer'[w].at = "char" /\ writer'[w].text = text /\ writer'[w].own = FALSE
      BY <1>4, <2>9 DEF Printing, Idle
    <3>2. ~Quiet'
      BY <3>1 DEF Quiet, At
    <3>4. PICK done : done = log
      OBVIOUS
    <3>5. done \in Seq(Characters) /\ log' = done \o text
      BY ONLY <2>2, <2>4, <3>4
    <3>6. Shows(Rows(done))' /\ CursorAt(Rows(done))'
      BY <2>2, <2>7, <3>4 DEF Shows, CursorAt
    <3>7. ASSUME NEW k PROVE InPlace(w, Rows(done), k)'
      BY <3>1, <3>6 DEF InPlace, EndsRow, At
    <3>8. InPlace(w, Rows(done), Head(writer[w].text))'
      <4>1. PICK k : k = Head(writer'[w].text)
        OBVIOUS
      <4>2. QED
        BY ONLY <3>7, <4>1
    <3>9. Written(w)'
      BY <2>4, <2>9, <3>1, <3>5, <3>8 DEF Written
    <3>10. QED
      BY <2>4, <2>5, <2>6, <3>2, <3>9 DEF Undisturbed
  <2>10. QED
    BY <2>8, <2>9
<1>7. QED
  BY ONLY <1>5, <1>6 DEF TextInv

\* Before the screen is set up.
LEMMA TextPort ==
    ASSUME TextInv, serial_initialize
    PROVE  TextInv'
<1>1. /\ ~initialized /\ printed["main"] = 0 /\ initialized' = initialized
      /\ serial' = serial /\ writer' = writer /\ log' = log /\ mixed' = mixed
      /\ printed' = printed
  BY DEF serial_initialize, ghost
<1>2. OnlySerial /\ serial = <<>> /\ log = <<>>
  BY <1>1 DEF TextInv, OnlySerial
<1>3. QED
  BY <1>1, <1>2 DEF TextInv, OnlySerial, Quiet, At

LEMMA TextEarly ==
    ASSUME TextInv, NEW m \in Early, kprintf_early(m)
    PROVE  TextInv'
<1>1. /\ ~initialized /\ initialized' = initialized /\ port' = port
      /\ writer' = writer /\ mixed' = mixed
  BY DEF kprintf_early
<1>2. /\ serial' = (IF port THEN serial \o sprintf(m.fmt) ELSE serial)
      /\ log' = log \o Text(m.fmt)
      /\ printed' = [printed EXCEPT !["main"] = @ + 1]
  BY DEF kprintf_early
<1>3. OnlySerial /\ printed["main"] \in Nat /\ DOMAIN printed = Writers
  BY <1>1 DEF TextInv
<1>4. sprintf(m.fmt) = Text(m.fmt)
  BY MessagesAssumption, SprintfIs
<1>5. port => serial' = log'
  BY <1>2, <1>3, <1>4 DEF OnlySerial
<1>6. printed'["main"] = printed["main"] + 1 /\ DOMAIN printed' = Writers
  BY ONLY <1>2, <1>3 DEF Writers
<1>7. printed'["main"] \in Nat /\ printed'["main"] # 0
  BY ONLY <1>3, <1>6
<1>8. QED
  BY <1>1, <1>3, <1>5, <1>6, <1>7 DEF TextInv, OnlySerial, Quiet, At

LEMMA TextScreen ==
    ASSUME TextInv, KernelGUI_initialize
    PROVE  TextInv'
<1>1. /\ initialized' = TRUE /\ screen' = Decorated /\ col' = 0 /\ row' = 0 /\ log' = <<>>
      /\ printed' = [printed EXCEPT !["main"] = 0] /\ writer' = writer
  BY DEF KernelGUI_initialize
<1>2. OnlySerial /\ DOMAIN printed = Writers
  BY DEF TextInv, KernelGUI_initialize
<1>3. printed'["main"] = 0 /\ DOMAIN printed' = Writers
  BY ONLY <1>1, <1>2 DEF Writers
<1>4. Shows(<<<<>>>>)' /\ CursorAt(<<<<>>>>)'
  <2>1. Len(<<<<>>>>) = 1 /\ Last(<<<<>>>>) = <<>> /\ Len(<<>>) = 0
    BY DEF Last
  <2>2. RowOf(<<<<>>>>) = 0
    BY <2>1, SectionSize DEF RowOf
  <2>3. QED
    BY <1>1, <2>1, <2>2, DecoratedShows DEF Shows, CursorAt
<1>5. log' \in Seq(Characters) /\ Rows(log') = <<<<>>>>
  BY <1>1, RowsOfNothing
<1>6. Undisturbed'
  BY <1>1, <1>2, <1>4, <1>5 DEF Undisturbed, OnlySerial, Alone, Quiet, At
<1>7. QED
  BY <1>1, <1>3, <1>6 DEF TextInv

\* The text is exact at first,
LEMMA InitText == Init => TextInv
<1> SUFFICES ASSUME Init PROVE TextInv
  OBVIOUS
<1>1. /\ ~initialized /\ ~mixed /\ serial = <<>> /\ log = <<>>
      /\ \A w \in Writers : At(w, "idle")
      /\ printed["main"] = 0 /\ DOMAIN printed = Writers
  BY DEF Init, At, Idle, Writers
<1>2. QED
  BY <1>1 DEF TextInv, OnlySerial, Quiet, At

\* remains so with every step,
LEMMA NextText == Types /\ TextInv /\ [Next]_vars => TextInv'
<1> SUFFICES ASSUME Types, TextInv, [Next]_vars PROVE TextInv'
  OBVIOUS
<1>1. ASSUME NEW w \in Writers, kputchar(w) PROVE TextInv'
  BY <1>1, TextKputchar
<1>2. ASSUME NEW w \in Writers, NEW m \in Messages[w], kprintf(w, m) PROVE TextInv'
  BY <1>2, TextBegins
<1>3. ASSUME NEW m \in Early, kprintf_early(m) PROVE TextInv'
  BY <1>3, TextEarly
<1>4. CASE UNCHANGED vars
  <2>1. UNCHANGED <<initialized, port, serial, screen, col, row, writer, printed, log, mixed>>
    BY <1>4 DEF vars
  <2>2. OnlySerial => OnlySerial'
    BY <2>1 DEF OnlySerial, Quiet, At
  <2>3. ASSUME Undisturbed PROVE Undisturbed'
    <3>1. ASSUME NEW rows PROVE /\ Shows(rows) => Shows(rows)'
                                /\ CursorAt(rows) => CursorAt(rows)'
      BY <2>1 DEF Shows, CursorAt
    <3>2. ASSUME NEW w \in Writers, Written(w) PROVE Written(w)'
      <4>1. ASSUME NEW rows, NEW c, InPlace(w, rows, c) PROVE InPlace(w, rows, c)'
        BY <2>1, <4>1 DEF InPlace, EndsRow, At, Shows, CursorAt
      <4>2. PICK done \in Seq(Characters) :
              /\ writer[w].text \in Seq(Characters) /\ writer[w].text # <<>>
              /\ log = done \o writer[w].text
              /\ InPlace(w, Rows(done), Head(writer[w].text))
        BY <3>2 DEF Written
      <4>3. PICK k : k = Head(writer[w].text)
        OBVIOUS
      <4>4. InPlace(w, Rows(done), k)' /\ k = Head(writer'[w].text)
        BY ONLY <2>1, <4>1, <4>2, <4>3
      <4>5. InPlace(w, Rows(done), Head(writer[w].text))'
        BY ONLY <4>4
      <4>6. QED
        BY <2>1, <4>2, <4>5 DEF Written
    <3>3. QED
      BY <2>1, <2>3, <3>1, <3>2 DEF Undisturbed, Alone, Quiet, At
  <2>4. QED
    BY <2>1, <2>2, <2>3 DEF TextInv
<1>5. QED
  BY <1>1, <1>2, <1>3, <1>4, TextPort, TextScreen DEF Next

\* and that is what TextExact says.
LEMMA TextInvShows == TextInv => TextExact
<1>1. ASSUME TextInv, initialized, Quiet, ~mixed PROVE Shows(Rows(log))
  BY <1>1 DEF TextInv, Undisturbed
<1>2. ASSUME TextInv, ~initialized, port PROVE serial = log
  BY <1>2 DEF TextInv, OnlySerial
<1>3. QED
  BY <1>1, <1>2 DEF TextExact, Shows, ShowsOn

\* Every word is written in positional notation in every base from 2 to 16, every
\* signed number with its sign, the smallest one included, and so sprintf writes
\* the text its format and its arguments mean (string_util.cpp 81-199).
THEOREM NumbersExact ==
    /\ \A b \in 2..16, v \in Word : utoa(v, b) = Numeral(v, b)
    /\ \A v \in Int_t : itoa(v, 10) = Signed(v)
    /\ \A fmt : Format(fmt) => sprintf(fmt) = Text(fmt)
  BY UtoaIs, ItoaIs, SprintfIs

\* As long as no two prints have overlapped the section shows, pixel for pixel, the
\* last rows of the text printed since the screen was set up, and before that the
\* serial port has sent all of it (kernel_ui.cpp 40-101, 120-186).
THEOREM TextShown == Spec => []TextExact
<1>1. IInv /\ TextInv /\ [Next]_vars => TextInv'
  BY NextText DEF IInv
<1>2. Spec => []TextInv
  BY <1>1, AlwaysIInv, InitText, PTL DEF Spec
<1>3. QED
  BY <1>2, TextInvShows, PTL

=============================================================================
