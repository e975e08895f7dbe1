------------------------------ MODULE Detections ------------------------------
(***************************************************************************)
(* What becomes of the candidates of a network output                      *)
(* (hardware/rknpu_infer/Yolov5PostProcess.h): Letterbox::restore maps     *)
(* their boxes from the network's square back to the image, and nms keeps  *)
(* the best of those that overlap.  Coordinates are integers, fractions    *)
(* are compared and rounded exactly; both axes are treated alike, so       *)
(* restore is stated for one of them.                                      *)
(***************************************************************************)
EXTENDS Integers, Sequences, FiniteSets

CONSTANTS
  Kinds, Confidences,            \* what detections are made of; a kind is a class and a
                                 \* box [x, y, w, h]
  OverNum, OverDen,              \* threshold = OverNum / OverDen
  TopK, OutLimit,                \* 1000 and 100
  Side,                          \* side of the network's input (640)
  Sides,                         \* widths and heights of images
  Points,                        \* coordinates in the network's input
  MaxDetections                  \* bound: candidates

ASSUME DetectionsAssumption ==
  /\ Confidences \subseteq Nat
  /\ Kinds \subseteq [class : Nat, box : [x : Nat, y : Nat, w : Nat \ {0}, h : Nat \ {0}]]
  /\ OverNum \in Nat /\ OverDen \in Nat \ {0} /\ OverNum <= OverDen
  /\ TopK \in Nat /\ OutLimit \in Nat \ {0} /\ MaxDetections \in Nat
  /\ Side \in Nat \ {0} /\ Sides \subseteq Nat \ {0} /\ Points \subseteq Int

VARIABLES
  dpc,          \* "call", "candidate" (the loop of nms) or "return"
  candidates,   \* d, sorted
  visited,      \* how many of them the loop has taken
  out,          \* out
  letterbox     \* the arguments of restore() and its result, or NoLetterbox

detectionvars == <<dpc, candidates, visited, out, letterbox>>

Detection ==
  {[class |-> k.class, box |-> k.box, confidence |-> c] : k \in Kinds, c \in Confidences}
NoLetterbox == [width |-> 0, height |-> 0, x1 |-> 0, x2 |-> 0, l |-> 0, r |-> 0]

DetectionsTypeOK ==
  /\ dpc \in {"call", "candidate", "return"}
  /\ candidates \in Seq(Detection) /\ out \in Seq(Detection) /\ Len(out) <= OutLimit
  /\ visited \in 0..Len(candidates)
  /\ letterbox \in [width : Sides \cup {0}, height : Sides \cup {0},
                    x1 : Points \cup {0}, x2 : Points \cup {0}, l : Nat, r : Nat]

DetectionsInit ==
  dpc = "call" /\ candidates = <<>> /\ visited = 0 /\ out = <<>> /\ letterbox = NoLetterbox

LesserOf(a, b) == IF a < b THEN a ELSE b
GreaterOf(a, b) == IF a < b THEN b ELSE a

-------------------------------------------------------------------------------
(* iou and nms. *)

Overlap(p, n, q, m) == GreaterOf(0, LesserOf(p + n, q + m) - GreaterOf(p, q))
Intersection(a, b) == Overlap(a.x, a.w, b.x, b.w) * Overlap(a.y, a.h, b.y, b.h)
Union(a, b) == a.w * a.h + b.w * b.h - Intersection(a, b)

\* The same class, and iou(a, b) > threshold.
Suppresses(a, b) ==
  a.class = b.class /\ Intersection(a.box, b.box) * OverDen > OverNum * Union(a.box, b.box)

Descending(s) == \A i \in 1 .. Len(s) - 1 : s[i].confidence >= s[i + 1].confidence

\* nms is called; std::sort leaves the order of equal confidences open.
CallNms ==
  /\ dpc = "call"
  /\ \E n \in 0..MaxDetections : \E d \in [1..n -> Detection] :
       Descending(d) /\ candidates' = d
  /\ dpc' = "candidate"
  /\ UNCHANGED <<visited, out, letterbox>>

\* (mutant) a candidate is compared with the detection kept last only.
MTakeCandidate ==
  /\ dpc = "candidate" /\ visited < LesserOf(TopK, Len(candidates)) /\ Len(out) < OutLimit
  /\ LET candidate == candidates[visited + 1] IN
       out' = IF out # <<>> /\ Suppresses(out[Len(out)], candidate) THEN out
              ELSE Append(out, candidate)
  /\ visited' = visited + 1
  /\ UNCHANGED <<dpc, candidates, letterbox>>

\* A turn of the loop.
TakeCandidate ==
  /\ dpc = "candidate" /\ visited < LesserOf(TopK, Len(candidates)) /\ Len(out) < OutLimit
  /\ LET candidate == candidates[visited + 1] IN
       out' = IF \E i \in DOMAIN out : Suppresses(out[i], candidate) THEN out
              ELSE Append(out, candidate)
  /\ visited' = visited + 1
  /\ UNCHANGED <<dpc, candidates, letterbox>>

NmsReturns ==
  /\ dpc = "candidate"
  /\ visited = LesserOf(TopK, Len(candidates)) \/ Len(out) = OutLimit
  /\ dpc' = "return"
  /\ UNCHANGED <<candidates, visited, out, letterbox>>

-------------------------------------------------------------------------------
(* Letterbox. *)

\* std::round(n / d) for d > 0: halves away from zero.
Rounded(n, d) == IF n >= 0 THEN (2 * n + d) \div (2 * d) ELSE -((d - 2 * n) \div (2 * d))

\* make(): the longer side fills the square, resized_w and left for the width.
Resized(w, h) == GreaterOf(1, Rounded(w * Side, GreaterOf(w, h)))
Left(w, h) == (Side - Resized(w, h)) \div 2

\* (mutant) the coordinate is scaled before the border is taken off.
MRestored(x, w, h) ==
  GreaterOf(0, LesserOf(Rounded(x * w, Resized(w, h)) - Left(w, h), w))

\* restore(), for one coordinate.
Restored(x, w, h) ==
  GreaterOf(0, LesserOf(Rounded((x - Left(w, h)) * w, Resized(w, h)), w))

CallRestore ==
  /\ dpc = "call"
  /\ \E w, h \in Sides, x1, x2 \in Points :
       LET l == Restored(x1, w, h) IN
       letterbox' = [width |-> w, height |-> h, x1 |-> x1, x2 |-> x2, l |-> l,
                     r |-> l + GreaterOf(0, Restored(x2, w, h) - l)]
  /\ dpc' = "return"
  /\ UNCHANGED <<candidates, visited, out>>

DetectionsNext == CallNms \/ TakeCandidate \/ NmsReturns \/ CallRestore

DetectionsSpec == DetectionsInit /\ [][DetectionsNext]_detectionvars

-------------------------------------------------------------------------------
(* Properties. *)

\* What nms returns: detections in the order of confidence, none of which suppresses
\* another, such that every candidate left out is suppressed by one that is at least
\* as sure, or comes after TopK candidates or OutLimit results that are.
NmsExact ==
  dpc = "return" =>
    /\ Descending(out)
    /\ \A i, j \in DOMAIN out : i # j => ~Suppresses(out[i], out[j])
    /\ \A n \in DOMAIN candidates :
         LET d == candidates[n]
             Surer(s) == \A i \in DOMAIN s : s[i].confidence >= d.confidence
         IN \/ \E i \in DOMAIN out : out[i] = d
            \/ \E i \in DOMAIN out : Suppresses(out[i], d) /\ out[i].confidence >= d.confidence
            \/ Len(out) = OutLimit /\ Surer(out)
            \/ n > TopK /\ Surer(SubSeq(candidates, 1, TopK))

\* A restored box lies in the image whatever the network says, what covers the image's
\* part of the square becomes the whole image, and the point of the square that a
\* pixel is drawn on is restored to within what one pixel of the square stands for.
RestoreExact ==
  LET b == letterbox  w == b.width  h == b.height IN
  b # NoLetterbox =>
    /\ 0 <= b.l /\ b.l <= b.r /\ b.r <= w
    /\ b.x1 = Left(w, h) /\ b.x2 = Left(w, h) + Resized(w, h) => b.l = 0 /\ b.r = w
    /\ \A x \in 0..w :
         b.x1 = Left(w, h) + Rounded(x * Resized(w, h), w)
           => LET d == Resized(w, h) * (b.l - x) IN
                GreaterOf(d, -d) * 2 <= w + Resized(w, h)

\* Both functions meet their definitions on every call.
DetectionsKept == DetectionsTypeOK /\ NmsExact /\ RestoreExact
===============================================================================
