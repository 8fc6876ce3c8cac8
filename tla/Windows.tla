------------------------------- MODULE Windows -------------------------------
(***************************************************************************)
(* Windows on the text screen: consoles standing on the desktop, one of    *)
(* them inside a frame.  A window keeps what it shows on a canvas of its   *)
(* own; drawing on it invalidates a rectangle, which every parent redraws, *)
(* clips to itself and passes on, so that in the end the desktop's canvas, *)
(* which is the screen, is brought up to date (kernel/Canvas.h, CliWindow, *)
(* CliPanel, CliFrame, CliDesktop, std/Rect.h).                            *)
(***************************************************************************)
EXTENDS Integers, Sequences, SequencesExt, FiniteSetsExt

CONSTANTS Sizes,    \* [DesktopWindow, "console", "frame", "client" -> <<width, height>>]
          CaptionLen, \* characters of the frame's caption
          Offsets,  \* where windows are moved to
          Regions   \* rectangles that are drawn, in the window's coordinates

VARIABLES canvas,   \* of every window: what each of its cells shows
          offset,   \* _offset
          children  \* of the desktop, the last one on top

vars == <<canvas, offset, children>>

Movable == {"console", "frame"}
Consoles == {"console", "client"}
Windows == Movable \cup {"client", "desktop"}
ClientOffset(w) == IF w = "frame" THEN <<1, 1>> ELSE <<0, 0>>
CellsOf(w) == (0 .. Sizes[w][1] - 1) \X (0 .. Sizes[w][2] - 1)
GetAttr(w, c) == <<w, c>>

-----------------------------------------------------------------------------
(* Rect                                                                    *)
Rect(l, t, w, h) == [l |-> l, t |-> t, w |-> w, h |-> h]
Right(r) == r.l + r.w
Bottom(r) == r.t + r.h
Moved(r, d) == Rect(r.l + d[1], r.t + d[2], r.w, r.h)
Plus(p, q) == <<p[1] + q[1], p[2] + q[2]>>
Minus(p, q) == <<p[1] - q[1], p[2] - q[2]>>
TopLeft(r) == <<r.l, r.t>>

Covers(r, p) == r.l <= p[1] /\ p[1] < Right(r) /\ r.t <= p[2] /\ p[2] < Bottom(r)

(* Rectangles that only touch intersect as well. *)
Intersects(r, s) == r.l <= Right(s) /\ s.l <= Right(r) /\ r.t <= Bottom(s) /\ s.t <= Bottom(r)

Intersect(r, s) ==
  LET l == Max({r.l, s.l})
      t == Max({r.t, s.t})
  IN  Rect(l, t, Min({Right(r), Right(s)}) - l, Min({Bottom(r), Bottom(s)}) - t)

-----------------------------------------------------------------------------
(* Canvas                                                                  *)
GetDrawBounds(w) == Rect(0, 0, Sizes[w][1], Sizes[w][2])

Fill(cells, w, r, color) ==
  IF ~Intersects(r, GetDrawBounds(w)) THEN cells
  ELSE LET clipped == Intersect(r, GetDrawBounds(w))
       IN  [p \in DOMAIN cells |-> IF Covers(clipped, p) THEN color ELSE cells[p]]

(* Copy: the source is clipped, then the target, then the source once more. *)
Copy(dst, dw, src, sw, from, to) ==
  LET s == Intersect(GetDrawBounds(sw), from)
      toRect == Moved(Rect(to[1], to[2], s.w, s.h), Minus(TopLeft(s), TopLeft(from)))
      t == Intersect(GetDrawBounds(dw), toRect)
      shift == Minus(TopLeft(t), TopLeft(toRect))
      from1 == Moved(s, shift)
      area == Rect(t.l, t.t, Min({s.w - shift[1], t.w}), Min({s.h - shift[2], t.h}))
  IN  [p \in DOMAIN dst |-> IF Covers(area, p)
                            THEN src[Plus(TopLeft(from1), Minus(p, TopLeft(t)))] ELSE dst[p]]

-----------------------------------------------------------------------------
(* Windows.  A state of theirs is s = [canvas, offset, children].          *)
Bounds(s, w) == Rect(s.offset[w][1], s.offset[w][2], Sizes[w][1], Sizes[w][2])

(* The part of a child that lies in the region, copied to where it stands. *)
CopyChild(s, cells, w, child, region) ==
  LET b == Moved(Bounds(s, child), ClientOffset(w))
      bc == Moved(Intersect(b, region), <<-b.l, -b.t>>)
  IN  IF Intersects(b, region)
      THEN Copy(cells, w, s.canvas[child], child, bc, Plus(TopLeft(bc), TopLeft(b)))
      ELSE cells

Border(p) == p[1] \in {0, Sizes["frame"][1] - 1} \/ p[2] \in {0, Sizes["frame"][2] - 1}

(* The caption between two blanks is written from the third cell of the canvas
   on, cell after cell, wherever it ends; then the two buttons. *)
Caption(p) == p[1] + Sizes["frame"][1] * p[2] \in 2 .. 3 + CaptionLen
Button(p) == p[2] = 0 /\ p[1] \in {Sizes["frame"][1] - 2, Sizes["frame"][1] - 3}

Decorated(p) == Border(p) \/ Caption(p) \/ Button(p)
Decoration(p) == GetAttr("frame", IF Button(p) THEN 3 ELSE IF Caption(p) THEN 2 ELSE 1)

(* A console keeps what is printed; a frame draws its client, its border and
   its caption, the desktop its children from the bottom to the top. *)
RedrawFrame(s, region) ==
  LET cells == CopyChild(s, Fill(s.canvas["frame"], "frame", region, GetAttr("frame", 0)),
                         "frame", "client", region)
  IN  [s EXCEPT !.canvas["frame"] =
         [p \in DOMAIN cells |-> IF Decorated(p) THEN Decoration(p) ELSE cells[p]]]

RedrawDesktop(s, region) ==
  LET cells[k \in 0 .. Len(s.children)] ==
        IF k = 0 THEN Fill(s.canvas["desktop"], "desktop", region, GetAttr("desktop", 0))
        ELSE CopyChild(s, cells[k - 1], "desktop", s.children[k], region)
  IN  [s EXCEPT !.canvas["desktop"] = cells[Len(s.children)]]

InvalidateDesktop(s, region) ==
  IF Intersects(GetDrawBounds("desktop"), region)
  THEN RedrawDesktop(s, Intersect(GetDrawBounds("desktop"), region)) ELSE s

(* Invalidate(region) of a window the desktop has or has not. *)
Invalidate(s, w, region) ==
  LET clipped == Intersect(GetDrawBounds(w), region)
      drawn == IF w = "frame" THEN RedrawFrame(s, clipped) ELSE s
  IN  IF ~Intersects(GetDrawBounds(w), region) THEN s
      ELSE IF w \in ToSet(s.children) THEN InvalidateDesktop(drawn, Moved(clipped, s.offset[w]))
      ELSE drawn

InvalidateClient(s, region) ==
  LET clipped == Intersect(GetDrawBounds("client"), region)
  IN  IF Intersects(GetDrawBounds("client"), region)
      THEN Invalidate(s, "frame", Moved(clipped, Plus(s.offset["client"], ClientOffset("frame"))))
      ELSE s

-----------------------------------------------------------------------------
State == [canvas |-> canvas, offset |-> offset, children |-> children]
Becomes(s) == canvas' = s.canvas /\ offset' = s.offset /\ children' = s.children

Init ==
  /\ canvas = [w \in Windows |-> [p \in CellsOf(w) |-> GetAttr(w, 0)]]
  /\ offset = [w \in Windows |-> <<0, 0>>]
  /\ children = <<>>

(* What a console does with its canvas: it changes cells of a region (here all
   of them) and invalidates it. *)
Draw(w, r, c) ==
  LET s == [State EXCEPT !.canvas[w] = Fill(@, w, r, GetAttr(w, c))]
  IN  Becomes(IF w = "client" THEN InvalidateClient(s, r) ELSE Invalidate(s, w, r))

AddChild(w) ==
  /\ w \notin ToSet(children)
  /\ Becomes(Invalidate([State EXCEPT !.children = Append(@, w)], w, GetDrawBounds(w)))

RemoveChild(w) ==
  \E i \in DOMAIN children :
    /\ children[i] = w
    /\ Becomes(InvalidateDesktop([State EXCEPT !.children = RemoveAt(@, i)], Bounds(State, w)))

(* Mutant: only the new place is drawn. *)
MoveNew(w, p) ==
  LET s == [State EXCEPT !.offset[w] = p]
  IN  Becomes(IF w \in ToSet(children) THEN InvalidateDesktop(s, Bounds(s, w)) ELSE s)

(* Move: the place the window leaves, then the one it comes to. *)
Move(w, p) ==
  LET s == [State EXCEPT !.offset[w] = p]
  IN  Becomes(IF w \in ToSet(children)
              THEN InvalidateDesktop(InvalidateDesktop(s, Bounds(State, w)), Bounds(s, w)) ELSE s)

Next ==
  \/ \E w \in Consoles, r \in Regions, c \in {0, 1} : Draw(w, r, c)
  \/ \E w \in Movable : AddChild(w) \/ RemoveChild(w) \/ \E p \in Offsets : Move(w, p)

Spec == Init /\ [][Next]_vars

-----------------------------------------------------------------------------
(* The screen shows the windows: every cell the topmost window that covers it,
   at whatever place partly off the screen the window stands, whatever was
   drawn, moved, added or removed before; and the background where there is no
   window.  The same for a frame that has been added, its client and, around
   it, its border, provided that the caption fits: the code does not look, and
   a longer one runs on into the rows below. *)
CaptionFits == CaptionLen + 4 <= Sizes["frame"][1]

Shown(p) ==
  LET on == {i \in DOMAIN children : Covers(Bounds(State, children[i]), p)}
      w == children[Max(on)]
  IN  IF on = {} THEN GetAttr("desktop", 0) ELSE canvas[w][Minus(p, offset[w])]

ScreenShowsWindows ==
  /\ \A p \in CellsOf("desktop") : canvas["desktop"][p] = Shown(p)
  /\ CaptionFits /\ "frame" \in ToSet(children) =>
       \A p \in CellsOf("frame") :
         canvas["frame"][p] = IF Border(p) THEN Decoration(p)
                              ELSE IF Minus(p, <<1, 1>>) \in CellsOf("client")
                              THEN canvas["client"][Minus(p, <<1, 1>>)] ELSE GetAttr("frame", 0)

=============================================================================
