------------------------------- MODULE Present -------------------------------
(***************************************************************************)
(* A frame on its way to the screen: DxgkDdiPresent and the blt half of    *)
(* SubmitCommand and SubmitCommandVirtual (KMD/WinMaliDdi.c), over the     *)
(* surfaces CreateAllocation lays out (KMD/WinMaliAlloc.c).  The frame is  *)
(* copied twice: by Present at once, and by SubmitCommand when dxgkrnl     *)
(* submits the DMA buffer Present wrote a descriptor for.                  *)
(*                                                                         *)
(* Addresses are bytes.  A byte of the target is the frame it came from    *)
(* and the address it had in the back buffer.  Rectangles are what an      *)
(* application may present: within the target, from a corner of the back   *)
(* buffer.  The app draws the next frame once Present has returned, which  *)
(* nothing orders after the copy that SubmitCommand has yet to make.       *)
(***************************************************************************)
EXTENDS Integers, Sequences, FiniteSets, FiniteSetsExt

CONSTANTS
    Buffers,       \* back buffers of the swapchain
    Bpp,           \* bytes of a pixel (4 in the code)
    PitchAlign,    \* WINMALI_PITCH_ALIGN
    PageSize,
    Sizes,         \* sizes of surfaces: <<width, height>>
    Corners,       \* corners of the rectangles: <<left, top>>
    MaxFrames,     \* bound: frames drawn
    None

PresentConstants ==
    /\ {Bpp, PitchAlign, PageSize} \subseteq Nat \ {0}
    /\ MaxFrames \in Nat
    /\ Sizes \subseteq (Nat \ {0}) \X (Nat \ {0})
    /\ Corners \subseteq Nat \X Nat
ASSUME PresentAssumption == PresentConstants

VARIABLES
    geo,       \* the surfaces and the rectangle, fixed for a swapchain
    drawn,     \* the frame in each back buffer
    ready,     \* the back buffer drawn and not yet presented
    frame,     \* frames drawn so far
    resident,  \* surfaces with an ApertureMdl: back buffers, and the target None
    dma,       \* DMA buffers: their descriptor, what became of it
    submitted, \* how many of them dxgkrnl has submitted
    target     \* the bytes of the target written so far

vars == <<geo, drawn, ready, frame, resident, dma, submitted, target>>
swapchain == <<geo, drawn, ready, frame>>

-----------------------------------------------------------------------------
(* Layout. *)

AlignUp(v, a) == ((v + a - 1) \div a) * a

\* CreateAllocation: the rows of the surface, in whole pages.
Surface(size) ==
    LET pitch == AlignUp(size[1] * Bpp, PitchAlign)
    IN [w |-> size[1], h |-> size[2], pitch |-> pitch,
        size |-> AlignUp(pitch * size[2], PageSize)]

\* A rectangle of the target and the corner of the back buffer it shows.
Surfaces == {Surface(size) : size \in Sizes}
Geometries ==
    {g \in [src: Surfaces, dst: Surfaces, from: Corners, to: Corners,
            w: {size[1] : size \in Sizes}, h: {size[2] : size \in Sizes}] :
        /\ g.to[1] + g.w <= g.dst.w /\ g.to[2] + g.h <= g.dst.h
        /\ g.from[1] < g.src.w /\ g.from[2] < g.src.h}

Init ==
    /\ geo \in Geometries
    /\ drawn = [b \in Buffers |-> 0] /\ ready = None /\ frame = 0
    /\ resident = {} /\ dma = <<>> /\ submitted = 0
    /\ target = {}

-----------------------------------------------------------------------------
(* The copies: of each row, bpp bytes a pixel, in order and up to the      *)
(* first row that does not fit either surface.                             *)

Row(r, w, bpp) ==
    [src |-> (geo.from[2] + r) * geo.src.pitch + geo.from[1] * bpp,
     dst |-> (geo.to[2] + r) * geo.dst.pitch + geo.to[1] * bpp,
     len |-> w * bpp]

Fits(row) == row.src + row.len <= geo.src.size /\ row.dst + row.len <= geo.dst.size

Rows(w, h, bpp) ==
    {Row(r, w, bpp) : r \in {r \in 0..(h - 1) :
                               \A q \in 0..r : Fits(Row(q, w, bpp))}}

\* ExecuteBlt_ takes 32 bits a pixel and no more than the source holds.
Clamp(n, room) == Min({n, room})
ExecuteBlt_NoClamp == Rows(geo.w, geo.h, Bpp)
ExecuteBlt ==
    LET w == Clamp(geo.w, geo.src.pitch \div Bpp - geo.from[1])
        h == Clamp(geo.h, geo.src.size \div geo.src.pitch - geo.from[2])
    IN IF w <= 0 \/ h <= 0 THEN {} ELSE Rows(w, h, Bpp)

\* Present takes its bytes per pixel from the target's pitch, and all it wants.
PresentBlt == Rows(geo.w, geo.h, geo.dst.pitch \div geo.dst.w)

Bytes(rows) == UNION {{row.dst + i : i \in 0..(row.len - 1)} : row \in rows}
Drawn(rows, f) ==
    UNION {{[at |-> row.dst + i, of |-> row.src + i, frame |-> f] :
              i \in 0..(row.len - 1)} : row \in rows}
Copy(rows, f) ==
    target' = {t \in target : t.at \notin Bytes(rows)} \cup Drawn(rows, f)

-----------------------------------------------------------------------------
(* The application, VidMm and dxgkrnl's scheduler. *)

Draw(b) ==
    /\ ready = None /\ frame < MaxFrames
    /\ frame' = frame + 1
    /\ drawn' = [drawn EXCEPT ![b] = frame + 1]
    /\ ready' = b
    /\ UNCHANGED <<geo, resident, dma, submitted, target>>

\* VidMm makes resident what it likes, and takes away what no DMA buffer needs.
InDma == IF submitted < Len(dma)
         THEN {None} \cup {dma[i].src : i \in (submitted + 1)..Len(dma)} ELSE {}
Residency(s) ==
    /\ s \notin resident \/ s \notin InDma
    /\ resident' = IF s \in resident THEN resident \ {s} ELSE resident \cup {s}
    /\ UNCHANGED <<swapchain, dma, submitted, target>>

\* An allocation OpenAllocation could not resolve: nothing is recorded and
\* nothing copied.
PresentUnresolved ==
    /\ ready # None
    /\ ready' = None
    /\ UNCHANGED <<geo, drawn, frame, resident, dma, submitted, target>>

Present ==
    /\ ready # None
    /\ dma' = Append(dma, [src |-> ready, magic |-> TRUE, frame |-> drawn[ready],
                           done |-> "no"])
    /\ IF {ready, None} \subseteq resident THEN Copy(PresentBlt, drawn[ready])
                                           ELSE target' = target
    /\ ready' = None
    /\ UNCHANGED <<geo, drawn, frame, resident, submitted>>

\* The descriptor of buffer i is executed, if it still has its magic, and
\* consumed; without both surfaces the frame is dropped.
Blt_NotConsumed(i) ==
    LET d == dma[i] IN
    IF ~d.magic THEN UNCHANGED <<dma, target>>
    ELSE IF {d.src, None} \subseteq resident
    THEN /\ Copy(ExecuteBlt, drawn[d.src])
         /\ dma' = [dma EXCEPT ![i].done = "copied"]
    ELSE /\ target' = target
         /\ dma' = [dma EXCEPT ![i].done = "dropped"]
Blt(i) ==
    LET d == dma[i] IN
    IF ~d.magic THEN UNCHANGED <<dma, target>>
    ELSE IF {d.src, None} \subseteq resident
    THEN /\ Copy(ExecuteBlt, drawn[d.src])
         /\ dma' = [dma EXCEPT ![i].magic = FALSE, ![i].done = "copied"]
    ELSE /\ target' = target
         /\ dma' = [dma EXCEPT ![i].magic = FALSE, ![i].done = "dropped"]

\* DMA buffers are submitted in order, and after a TDR some of them again.
SubmitCommand(i) ==
    /\ i <= submitted + 1
    /\ Blt(i)
    /\ submitted' = Max({submitted, i})
    /\ UNCHANGED <<swapchain, resident>>

Next ==
    \/ Present \/ PresentUnresolved
    \/ \E i \in DOMAIN dma : SubmitCommand(i)
    \/ \E b \in Buffers : Draw(b)
    \/ \E s \in Buffers \cup {None} : Residency(s)

Spec == Init /\ [][Next]_vars

-----------------------------------------------------------------------------
(* Pixels. *)

\* A byte in the rectangle, from the byte of the same pixel of the back buffer.
InPlace(t) ==
    LET row == t.at \div geo.dst.pitch - geo.to[2]
        col == (t.at % geo.dst.pitch) - geo.to[1] * Bpp
    IN /\ row \in 0..(geo.h - 1) /\ col \in 0..(geo.w * Bpp - 1)
       /\ t.of \div geo.src.pitch = geo.from[2] + row
       /\ t.of % geo.src.pitch = geo.from[1] * Bpp + col

\* Present's copy is the right one if the pitch is that of the pixels and the
\* rectangle lies within the back buffer's row.
Exact ==
    /\ geo.dst.pitch \div geo.dst.w = Bpp
    /\ (geo.from[1] + geo.w) * Bpp <= geo.src.pitch

(* ExecuteBlt_ and Present (WinMaliDdi.c:622, the clamp that "keeps a      *)
(* mismatched present from tearing"): what SubmitCommand copies is in its  *)
(* place within both surfaces, whatever they are; what is on the screen is *)
(* in place and in the rectangle, unless Present's own copy cannot be.     *)
PixelsInPlace ==
    /\ \A t \in Drawn(ExecuteBlt, 0) : InPlace(t)
    /\ \A t \in target : Exact => InPlace(t)
    /\ \A t \in target : t.of < geo.src.size /\ t.at < geo.dst.size

(* SubmitCommand (WinMaliDdi.c:884, "consume: a TDR resubmit must not      *)
(* replay stale pointers"): once every DMA buffer was submitted the last   *)
(* frame presented is what its rectangle shows, or a newer one drawn over  *)
(* it, however often older buffers are submitted again; unless the copy    *)
(* was dropped.                                                            *)
LastPresentWins ==
    LET n == Len(dma) IN
    (n > 0 /\ submitted = n /\ dma[n].done = "copied") =>
        \A t \in target : t.at \in Bytes(ExecuteBlt) => t.frame >= dma[n].frame

(* Present and SubmitCommand: the screen goes back to an older frame only  *)
(* while a later present than the one submitted is still to be submitted,  *)
(* the price of copying in both places, or from a frame nobody presented:  *)
(* one drawn into a back buffer whose copy was still to be made.           *)
OlderOnlyBetween ==
    [][\A t \in target, u \in target' :
         (t.at = u.at /\ u.frame < t.frame) =>
            \/ submitted' < Len(dma)
            \/ t.frame > dma[Len(dma)].frame]_vars
=============================================================================
