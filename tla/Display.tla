------------------------------- MODULE Display -------------------------------
(* What a user sees (the display drivers and leds): the screen, of which the  *)
(* host keeps framebuffers and sends the differences, and chains of leds.     *)
(* A cell of the screen is a set of pixels; a row of a cell's bytes is one    *)
(* byte here.  The commands of a flush reach the chip in order.               *)
EXTENDS Integers, Sequences, SequencesExt, FiniteSetsExt

CONSTANTS
  Devices,           \* "st7920", "hd44780", "uc1701", "neopixel", "dotstar"
  Cols,              \* columns of the screen, an even number; it has four rows
  Lines,             \* bound: the rows drawn on
  Gap, Limit,        \* changes at most Gap apart are sent together, up to Limit bytes
  Count, Colors      \* leds of a chain, colors they are given: <<red, green, blue>>

VARIABLES
  device, ready,
  new_data, old_data,  \* the framebuffers and what the chip was sent, by name
  screen,              \* the chip: its memory, its mode and the one the host takes it for, the longest write
  drawn,               \* what was drawn at each place since the screen was cleared
  color_data, leds,    \* the colors as they are sent, and those the chain shows
  asked                \* the colors asked for, and as of the last transmission

display_vars == <<device, ready, new_data, old_data, screen, drawn, color_data, leds, asked>>

Rows == 0 .. 3
Places == Rows \X (0 .. Cols - 1)
Blank == {}
Xor(a, b) == (a \ b) \union (b \ a)
Screens == {"st7920", "hd44780", "uc1701"}

\* The images of a letter and of two icons; bed2 is kept by the chip as its difference to bed1.
Letter == {1}
Icon == [bed1 |-> <<{1}, {2}>>, bed2 |-> <<{1, 2}, {1}>>]
Codes == [blank |-> Blank, letter |-> Letter]

-----------------------------------------------------------------------------
(* The framebuffers of a chip, by name, with their lengths.  Text cells hold  *)
(* codes, graphics cells and the pages of a uc1701 pixels.                    *)

Buffers ==
  CASE device = "st7920" -> <<"text", "glyph", "graphics0", "graphics1">>
    [] device = "hd44780" -> <<"text0", "text1">>
    [] device = "uc1701" -> <<"page0", "page1", "page2", "page3">>
    [] OTHER -> <<>>
IsText(name) == name \in {"text", "text0", "text1"}
Length(name) ==
  CASE name = "text" -> 4 * Cols
    [] name = "glyph" -> 2
    [] name \in {"text0", "text1", "graphics0", "graphics1"} -> 2 * Cols
    [] OTHER -> Cols
Cleared(name) == [i \in 0 .. Length(name) - 1 |-> IF IsText(name) THEN "blank" ELSE Blank]
Names == ToSet(Buffers)

\* Where the text of a place is, and its graphics
TextAt(y, x) ==
  CASE device = "st7920" -> <<"text", (CASE y = 0 -> 0 [] y = 1 -> 2 * Cols [] y = 2 -> Cols [] OTHER -> 3 * Cols) + x>>
    [] device = "hd44780" -> <<IF y % 2 = 0 THEN "text0" ELSE "text1", x + (y \div 2) * Cols>>
    [] OTHER -> <<Buffers[y + 1], x>>
GraphicsAt(y, x) ==
  IF device = "uc1701" THEN TextAt(y, x)
  ELSE IF y >= 2 THEN <<IF y = 2 THEN "graphics0" ELSE "graphics1", x + Cols>>
  ELSE <<IF y = 0 THEN "graphics0" ELSE "graphics1", x>>

-----------------------------------------------------------------------------
(* Drawing into the framebuffers *)

\* Mutant: a text runs on behind the end of its row
Uncut(x, data) == data
Cut(x, data) == SubSeq(data, 1, Min({Len(data), Max({Cols - x, 0})}))

Put(fb, at, value) == [fb EXCEPT ![at[1]] = [i \in DOMAIN @ |-> IF i = at[2] THEN value ELSE @[i]]]

\* The codes of data, one after the other from where the row's text begins at x
write_text(fb, x, y, data) ==
  LET row == TextAt(y, x)
      cut == Cut(x, data)
  IN  FoldLeft(LAMBDA f, i : Put(f, <<row[1], row[2] + i - 1>>, IF device = "uc1701" THEN Codes[cut[i]] ELSE cut[i]),
               fb, [i \in 1 .. Len(cut) |-> i])

\* Pixels: those of a uc1701 are turned over, on those of the text.
write_graphics(fb, x, y, data) ==
  IF device = "hd44780" THEN fb
  ELSE LET row == GraphicsAt(y, x)
           cut == Cut(x, data)
           Pixels(f, i) == IF device = "uc1701" THEN Xor(f[row[1]][row[2] + i - 1], cut[i]) ELSE cut[i]
       IN  FoldLeft(LAMBDA f, i : Put(f, <<row[1], row[2] + i - 1>>, Pixels(f, i)), fb, [i \in 1 .. Len(cut) |-> i])

\* Both cells of an icon, if they fit
IconOfPage(fb, x, y, name) ==
  IF x >= Cols - 1 THEN fb
  ELSE Put(Put(fb, TextAt(y, x), Icon[name][1]), TextAt(y, x + 1), Icon[name][2])

\* An icon the chip keeps is drawn as text over the icon it differs from.
IconOfChip(fb, x, y, name) ==
  IF name = "bed2" /\ x % 2 = 0
  THEN write_graphics(write_text(fb, x, y, <<"left", "right">>), x, y, Icon["bed1"])
  ELSE write_graphics(fb, x, y, Icon[name])

write_glyph(fb, x, y, name) ==
  CASE device = "st7920" -> IconOfChip(fb, x, y, name)
    [] device = "hd44780" -> write_text(fb, x, y, <<"letter">>)
    [] device = "uc1701" -> IconOfPage(fb, x, y, name)
Width(x) ==
  CASE device = "st7920" -> 2 [] device = "hd44780" -> 1 [] device = "uc1701" -> IF x < Cols - 1 THEN 2 ELSE 0

\* What is to be seen of a piece of a text: letters, or the cells of an icon
Seen(piece, x) ==
  IF piece.glyph = "" THEN [i \in 1 .. piece.len |-> Letter]
  ELSE IF device = "hd44780" THEN <<Letter>>
  ELSE SubSeq(Icon[piece.glyph], 1, Width(x))

DrawPiece(fb, x, y, piece) ==
  IF piece.glyph # "" THEN write_glyph(fb, x, y, piece.glyph)
  ELSE write_text(fb, x, y, [i \in 1 .. piece.len |-> "letter"])
Advance(x, piece) == IF piece.glyph = "" THEN piece.len ELSE Width(x)

draw_text(fb, y, col, pieces) ==
  FoldLeft(LAMBDA s, piece :
             [fb |-> DrawPiece(s.fb, s.pos, y, piece), pos |-> s.pos + Advance(s.pos, piece),
              seen |-> s.seen \o Seen(piece, s.pos)],
           [fb |-> fb, pos |-> col, seen |-> <<>>], pieces)

-----------------------------------------------------------------------------
(* Sending what has changed *)

\* Mutant: changes are sent together, but only as many bytes as changed
Joined(next, pos) == next.count + 1
JoinedCount(next, pos) == next.count + (next.pos - pos)

Join(changes, pos) ==
  IF changes # <<>> /\ pos + Gap >= Head(changes).pos /\ Head(changes).count < Limit
  THEN <<[pos |-> pos, count |-> JoinedCount(Head(changes), pos)]>> \o Tail(changes)
  ELSE <<[pos |-> pos, count |-> 1]>> \o changes

Diffs(fb, name) ==
  LET changed == SelectSeq([i \in 1 .. Length(name) |-> i - 1],
                           LAMBDA pos : fb[name][pos] # old_data[name][pos])
  IN  FoldRight(LAMBDA pos, changes : Join(changes, pos), changed, <<>>)

\* Mutant: an odd position is sent as the word it is in, the number of bytes as it is
Halved(change) == [pos |-> 2 * (change.pos \div 2), count |-> change.count + (change.count % 2)]
Aligned(change) ==
  LET count == change.count + (change.pos % 2)
  IN  [pos |-> 2 * (change.pos \div 2), count |-> count + (count % 2)]

Sent(change) == IF device = "st7920" THEN Aligned(change) ELSE change

Extended(name) == name \in {"graphics0", "graphics1"}

\* Mutant: the chip is left in the mode of the graphics
NeverLeft(s, name) ==
  IF Extended(name) THEN [s EXCEPT !.extended = TRUE, !.is_extended = TRUE] ELSE s
Prefixed(s, name) ==
  IF device = "st7920" /\ s.is_extended # Extended(name)
  THEN [s EXCEPT !.extended = Extended(name), !.is_extended = Extended(name)] ELSE s

\* The chip takes an address only in the mode it belongs to.
Written(s, fb, name, change) ==
  LET taken == device # "st7920" \/ s.extended = Extended(name)
  IN  [s EXCEPT !.longest = Max({@, change.count}),
                !.memory[name] = [i \in DOMAIN @ |->
                   IF taken /\ i \in change.pos .. change.pos + change.count - 1 THEN fb[name][i] ELSE @[i]]]

Send(s, fb, name, change) == Written(Prefixed(s, name), fb, name, change)

flush(fb, chip) ==
  /\ screen' = FoldLeft(LAMBDA s, name : FoldLeft(LAMBDA t, change : Send(t, fb, name, Sent(change)), s, Diffs(fb, name)),
                        chip, Buffers)
  /\ new_data' = fb /\ old_data' = fb

-----------------------------------------------------------------------------
(* The screen of the printer *)

\* handle_ready: the chip leaves the extended mode it may be in; its whole memory is written.
init ==
  /\ device \in Screens /\ ~ready /\ ready' = TRUE
  /\ flush(new_data, [screen EXCEPT !.extended = FALSE])
  /\ UNCHANGED <<device, drawn, color_data, leds, asked>>

Clear == [name \in Names |-> IF name = "glyph" THEN new_data[name] ELSE Cleared(name)]
Unpainted == [at \in Places |-> Blank]
Painted(y, col, seen) ==
  [at \in Places |-> IF at[1] = y /\ at[2] - col + 1 \in DOMAIN seen THEN seen[at[2] - col + 1] ELSE Blank]

\* What is shown may fail after any piece: the rest is not drawn.
screen_update_event(y, col, pieces) ==
  /\ ready
  /\ \E text \in {draw_text(Clear, y, col, pieces)} :
       flush(text.fb, screen) /\ drawn' = Painted(y, col, text.seen)
  /\ UNCHANGED <<device, ready, color_data, leds, asked>>

draw_progress_bar(y, col, width) ==
  LET bar == [i \in 1 .. width |-> {2}]
  IN  /\ ready /\ col + width <= Cols
      /\ flush(write_graphics(Clear, col, y, bar), screen)
      /\ drawn' = Painted(y, col, IF device = "hd44780" THEN <<>> ELSE bar)
      /\ UNCHANGED <<device, ready, color_data, leds, asked>>

-----------------------------------------------------------------------------
(* Chains of leds *)

Bytes(color) == IF device = "neopixel" THEN <<color[2], color[1], color[3]>> ELSE <<"ff", color[3], color[2], color[1]>>
Frame == IF device = "neopixel" THEN 3 ELSE 4

\* Mutant: the colors of a dotstar chain are counted from its start frame
FromStart(index) == (index - 1) * Frame
FirstByte(index) == IF device = "neopixel" THEN (index - 1) * Frame ELSE index * Frame

Chain(colors) == FlattenSeq([i \in 1 .. Count |-> Bytes(colors[i])])
Framed(bytes) == IF device = "neopixel" THEN bytes ELSE <<0, 0, 0, 0>> \o bytes \o <<"ff", "ff", "ff", "ff">>

update_color_data(color, index) ==
  IF index = 0 THEN Framed(Chain([i \in 1 .. Count |-> color]))
  ELSE SubSeq(color_data, 1, FirstByte(index)) \o Bytes(color)
         \o SubSeq(color_data, FirstByte(index) + Frame + 1, Len(color_data))

\* A led takes the color of the frame that comes to it.
Received(bytes) ==
  LET first == IF device = "neopixel" THEN 0 ELSE 4
      Byte(i, k) == bytes[first + (i - 1) * Frame + k]
  IN  [i \in 1 .. Count |-> IF device = "neopixel" THEN <<Byte(i, 2), Byte(i, 1), Byte(i, 3)>>
                            ELSE <<Byte(i, 4), Byte(i, 3), Byte(i, 2)>>]

\* index 0: all of them; transmit: the chain is told at once.
cmd_SET_LED(color, index, transmit) ==
  /\ device \notin Screens
  /\ color_data' = update_color_data(color, index)
  /\ LET now == [i \in 1 .. Count |-> IF index \in {0, i} THEN color ELSE asked.now[i]]
     IN  asked' = [now |-> now, told |-> IF transmit THEN now ELSE asked.told]
  /\ leds' = IF transmit THEN Received(color_data') ELSE leds
  /\ UNCHANGED <<device, ready, new_data, old_data, screen, drawn>>

-----------------------------------------------------------------------------
Unknown(name) == IF IsText(name) THEN "unknown" ELSE {9}   \* no framebuffer has it
GlyphData == [i \in 0 .. 1 |-> Xor(Icon["bed1"][i + 1], Icon["bed2"][i + 1])]

InitDisplay ==
  /\ device \in Devices /\ ready = FALSE
  /\ new_data = [name \in Names |-> IF name = "glyph" THEN GlyphData ELSE Cleared(name)]
  /\ old_data = [name \in Names |-> [i \in 0 .. Length(name) - 1 |-> Unknown(name)]]
  /\ drawn = Unpainted
  /\ \E extended \in BOOLEAN :
       /\ extended => device = "st7920"
       /\ screen = [memory |-> old_data, extended |-> extended, is_extended |-> FALSE, longest |-> 0]
  /\ \E color \in Colors :
       /\ asked = [now |-> [i \in 1 .. Count |-> color], told |-> [i \in 1 .. Count |-> color]]
       /\ color_data = IF device \in Screens THEN <<>> ELSE Framed(Chain(asked.now))
       /\ leds = IF device \in Screens THEN <<>> ELSE Received(color_data)

Piece(glyph, len) == [glyph |-> glyph, len |-> len]
Pieces == {Piece("", 1), Piece("", 2), Piece("bed1", 0), Piece("bed2", 0)}

NextDisplay ==
  \/ init
  \/ \E y \in Lines, x \in 0 .. Cols - 1 :
       \/ draw_progress_bar(y, x, 2)
       \/ \E p \in Pieces, q \in {Piece("", 1), Piece("bed2", 0)} :
            screen_update_event(y, x, <<p>>) \/ screen_update_event(y, x, <<p, q>>)
  \/ \E color \in Colors, index \in 0 .. Count, transmit \in BOOLEAN : cmd_SET_LED(color, index, transmit)

-----------------------------------------------------------------------------
(* The pixels of a place, as the chip shows them *)
Code(memory, at) ==
  LET code == memory[at[1]][at[2]]
  IN  CASE code = "left" -> memory["glyph"][0] [] code = "right" -> memory["glyph"][1] [] OTHER -> Codes[code]
Visible(y, x) ==
  LET at == TextAt(y, x)
      graphics == GraphicsAt(y, x)
  IN  CASE device = "uc1701" -> screen.memory[at[1]][at[2]]
        [] device = "hd44780" -> Code(screen.memory, at)
        [] device = "st7920" -> Xor(Code(screen.memory, at), screen.memory[graphics[1]][graphics[2]])

(* After an update the screen shows what was drawn, in its place and nowhere  *)
(* else, whatever it showed before; no write is longer than a message holds.  *)
ScreenShows ==
  device \in Screens /\ ready =>
    /\ \A at \in Places : Visible(at[1], at[2]) = drawn[at]
    /\ screen.longest <= Limit + Gap + 1

(* Each led has the color last asked for it when the chain was told last.     *)
LedsShow == device \notin Screens => leds = asked.told /\ Received(color_data) = asked.now

=============================================================================
