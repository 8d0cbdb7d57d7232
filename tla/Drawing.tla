------------------------------ MODULE Drawing ------------------------------
(***************************************************************************)
(* graphics.c and text.c: where in the frame buffer rectangles, glyphs and *)
(* strings are drawn.  The buffer is an array of pixels, a drawing the set *)
(* of the indices it writes; sums and indices are uint32_t.  A glyph may   *)
(* set any pixel of its box: which ones, and colours, are left out.        *)
(*                                                                         *)
(* What is assumed at the end holds for the frame buffers, the places and  *)
(* the texts named there: TLC evaluates it.                                *)
(***************************************************************************)
EXTENDS Integers, Sequences, FiniteSets

CONSTANTS
    UINT32_MAX,                         \* 2^32 - 1
    FONT_W, FONT_H,                     \* 8, 16
    CHINESE_FONT_W, CHINESE_FONT_H,     \* 16, 16
    FrameBuffers,   \* boot_params_t: width, height and pitch, in pixels
    Alphabet,       \* code points of the texts
    LongestText

Uint32 == 0 .. UINT32_MAX
U(v) == v % (UINT32_MAX + 1)
Least(a, b) == IF a < b THEN a ELSE b

----------------------------------------------------------------------------
(* Pixels.                                                                 *)

OnScreen(fb, i, j) == i < fb.width /\ j < fb.height

Pixel(fb, i, j) == U(j * fb.pitch + i)
Pixels(fb, I, J) == {Pixel(fb, i, j) : i \in I, j \in J}

put_pixel(fb, i, j) == IF OnScreen(fb, i, j) THEN {Pixel(fb, i, j)} ELSE {}

clear_screen(fb) == {i \in Uint32 : i < U(fb.pitch * fb.height)}

draw_rect(fb, x0, y0, w, h) ==
    IF ~OnScreen(fb, x0, y0) THEN {}
    ELSE Pixels(fb, x0 .. Least(U(x0 + w), fb.width) - 1,
                    y0 .. Least(U(y0 + h), fb.height) - 1)

\* The check put_char and put_chinese_char begin with.
BoxFits(fb, x0, y0, w, h) == U(x0 + w) <= fb.width /\ U(y0 + h) <= fb.height

\* put_char: to the buffer, whatever the check let pass.
put_char(fb, x0, y0) ==
    IF ~BoxFits(fb, x0, y0, FONT_W, FONT_H) THEN {}
    ELSE Pixels(fb, x0 .. x0 + FONT_W - 1, y0 .. y0 + FONT_H - 1)

\* put_chinese_char; a glyph that is not known is a hollow box, by put_pixel.
put_chinese_char(fb, known, x0, y0) ==
    LET I == 0 .. CHINESE_FONT_W - 1
        J == 0 .. CHINESE_FONT_H - 1
        rim == {p \in I \X J : p[1] \in {0, CHINESE_FONT_W - 1} \/ p[2] \in {0, CHINESE_FONT_H - 1}}
    IN  IF ~BoxFits(fb, x0, y0, CHINESE_FONT_W, CHINESE_FONT_H) THEN {}
        ELSE IF known THEN {Pixel(fb, x0 + i, y0 + j) : i \in I, j \in J}
        ELSE UNION {put_pixel(fb, U(x0 + p[1]), U(y0 + p[2])) : p \in rim}

----------------------------------------------------------------------------
(* Text: memory is a sequence of bytes, with the terminator.               *)

ASCII == 0 .. 127

\* The code point at a byte, and how many bytes it takes, by the first of them.
utf8_to_unicode(mem, i) ==
    LET c == mem[i]
        low(k) == mem[i + k] % 64
    IN  IF c < 128 THEN [uni |-> c, advance |-> 1]
        ELSE IF c \div 32 = 6 THEN [uni |-> (c % 32) * 64 + low(1), advance |-> 2]
        ELSE IF c \div 16 = 14
             THEN [uni |-> (c % 16) * 4096 + low(1) * 64 + low(2), advance |-> 3]
        ELSE [uni |-> 63, advance |-> 1]

GlyphWidth(uni) == IF uni \in ASCII THEN FONT_W ELSE CHINESE_FONT_W

RECURSIVE GlyphsFrom(_, _, _, _, _, _)
\* print_string from byte i on, with its cursor: the glyphs and their places.
GlyphsFrom(mem, i, fb, x0, cur_x, cur_y) ==
    IF mem[i] = 0 THEN <<>>
    ELSE LET c     == utf8_to_unicode(mem, i)
             right == U(cur_x + GlyphWidth(c.uni))
             full  == U(right + CHINESE_FONT_W) > fb.width
         IN  <<[uni |-> c.uni, x |-> cur_x, y |-> cur_y]>> \o
             GlyphsFrom(mem, i + c.advance, fb, x0,
                        IF full THEN x0 ELSE right,
                        IF full THEN U(cur_y + CHINESE_FONT_H + 2) ELSE cur_y)

print_string(mem, fb, x0, y0) == GlyphsFrom(mem, 1, fb, x0, x0, y0)

DrawGlyph(fb, g) ==
    IF g.uni \in ASCII THEN put_char(fb, g.x, g.y) ELSE put_chinese_char(fb, TRUE, g.x, g.y)

----------------------------------------------------------------------------
(* What is assumed.                                                        *)

\* The pixels of the frame buffer that are seen.
Screen(fb) == {Pixel(fb, i, j) : i \in 0 .. fb.width - 1, j \in 0 .. fb.height - 1}

Numbers == 0 .. 3 \cup {UINT32_MAX - 1, UINT32_MAX}

\* A rectangle is what of it is on the screen.  One whose right or lower edge
\* is beyond the largest number is not drawn at all.
ASSUME RectsAreClipped ==
    \A fb \in FrameBuffers : \A x0, y0 \in Uint32 : \A w, h \in Numbers :
      draw_rect(fb, x0, y0, w, h) =
        IF UINT32_MAX < x0 + w \/ UINT32_MAX < y0 + h THEN {}
        ELSE UNION {put_pixel(fb, i, j) : i \in x0 .. x0 + w - 1, j \in y0 .. y0 + h - 1}

\* A cleared screen is cleared where anything can be drawn.
ASSUME ClearIsComplete ==
    \A fb \in FrameBuffers : \A i, j \in Uint32 : put_pixel(fb, i, j) \subseteq clear_screen(fb)

\* A glyph is drawn whole, where it should be, or not at all: but for one that
\* begins less than its width before the largest number, and so passes the check
\* as if it ended at the left edge.  In the first rows it misses the buffer.
ASSUME GlyphsAreWhole ==
    \A fb \in FrameBuffers : \A x0, y0 \in Uint32 :
      LET box   == Pixels(fb, x0 .. x0 + FONT_W - 1, y0 .. y0 + FONT_H - 1)
          whole == OnScreen(fb, x0, y0) /\ OnScreen(fb, x0 + FONT_W - 1, y0 + FONT_H - 1)
          wraps == x0 + FONT_W > UINT32_MAX \/ y0 + FONT_H > UINT32_MAX
      IN  /\ ~wraps => put_char(fb, x0, y0) = IF whole THEN box ELSE {}
          /\ put_chinese_char(fb, FALSE, x0, y0) \subseteq Screen(fb)
          /\ x0 + FONT_W > UINT32_MAX /\ y0 = 0 =>
                ~(put_char(fb, x0, y0) \subseteq clear_screen(fb))

\* UTF-8 of a code point, and of a text.
Encoded(u) ==
    IF u < 128 THEN <<u>>
    ELSE IF u < 2048 THEN <<192 + u \div 64, 128 + (u % 64)>>
    ELSE <<224 + u \div 4096, 128 + ((u \div 64) % 64), 128 + (u % 64)>>

RECURSIVE Bytes(_)
Bytes(text) == IF text = <<>> THEN <<0>> ELSE Encoded(Head(text)) \o Bytes(Tail(text))

Texts == UNION {[1 .. n -> Alphabet] : n \in 0 .. LongestText}

\* Every code point of up to three bytes is read as what it is, and one of four
\* bytes as four question marks.
ASSUME CodePointsComeBack ==
    /\ \A u \in 1 .. 65535 :
         utf8_to_unicode(Encoded(u), 1) = [uni |-> u, advance |-> Len(Encoded(u))]
    /\ \A first \in 240 .. 247 : \A fb \in FrameBuffers :
         LET glyphs == print_string(<<first, 144, 128, 191, 0>>, fb, 0, 0)
         IN  Len(glyphs) = 4 /\ \A k \in 1 .. 4 : glyphs[k].uni = 63

\* A text that begins where a wide glyph has room is there in full and in its
\* order, inside the screen's width; no glyph covers another, and only what is
\* below the screen is not drawn.
ASSUME TextIsWhole ==
    \A fb \in FrameBuffers : \A x0 \in 0 .. fb.width - CHINESE_FONT_W : \A y0 \in 0 .. fb.height :
      \A text \in Texts :
        LET glyphs == print_string(Bytes(text), fb, x0, y0)
            drawn(k) == DrawGlyph(fb, glyphs[k])
        IN  /\ Len(glyphs) = Len(text)
            /\ \A k \in DOMAIN text :
                 /\ glyphs[k].uni = text[k]
                 /\ drawn(k) \subseteq Screen(fb)
                 /\ drawn(k) # {} <=>
                      glyphs[k].y + (IF text[k] \in ASCII THEN FONT_H ELSE CHINESE_FONT_H) <= fb.height
                 /\ \A l \in 1 .. k - 1 :
                      /\ drawn(k) \cap drawn(l) = {}
                      /\ \/ glyphs[l].y < glyphs[k].y
                         \/ glyphs[l].y = glyphs[k].y /\ glyphs[l].x < glyphs[k].x

\* A text that ends inside a character is read past its end, with the
\* terminator taken for the rest of the character.
ASSUME CutTextGoesOn ==
    \A fb \in FrameBuffers : \A u \in Alphabet : \A k \in 1 .. Len(Encoded(u)) - 1 :
      LET rest == Len(Encoded(u)) - k
          mem  == SubSeq(Encoded(u), 1, k) \o <<0>> \o [i \in 1 .. rest |-> 65] \o <<0>>
      IN  Len(print_string(mem, fb, 0, 0)) = 2
=============================================================================
