------------------------------ MODULE Inference ------------------------------
(***************************************************************************)
(* What the NPU's side does with a frame (npu.c) and where it says a       *)
(* detection is (isp.c), as functions.  Coordinates in a frame are in      *)
(* thousandths of its width or height, confidences and thresholds in       *)
(* hundredths, angles in thousandths of a degree; arithmetic is exact      *)
(* where the code's is in floats.  A plane of a picture is a function from *)
(* 0, row after row.                                                       *)
(*                                                                         *)
(* The pipeline (Vision) calls npu_inference, with a picture that has the  *)
(* size of the input already, and the functions of isp.c that place a      *)
(* detection.  npu_inference_nv12, with nv12_to_rgb behind it, the setters *)
(* of the thresholds and npu_get_class_name are offered to callers the     *)
(* program does not have yet: what is stated of them is stated of the      *)
(* functions, not of a frame on its way to the network.                    *)
(***************************************************************************)
EXTENDS Integers, Sequences, FiniteSetsExt, Filters

InputSide == 640           \* NPU_INPUT_WIDTH and NPU_INPUT_HEIGHT
MaxDetections == 100
InputSize == 640 * 640 * 3 \* MAX_RGB_SIZE, what the pipeline allocates for the input

-----------------------------------------------------------------------------
(* Colours.                                                                *)

Clamp(x) == IF x < 0 THEN 0 ELSE IF x > 255 THEN 255 ELSE x

\* One pixel; the weights are in 256ths.
Rgb(y, u, v) ==
    <<Clamp(y + ((v - 128) * 359) \div 256),
      Clamp(y - ((u - 128) * 88 + (v - 128) * 183) \div 256),
      Clamp(y + ((u - 128) * 454) \div 256)>>

\* Where the u of pixel p is, behind the w * h of y; its v is the next.
ChromaOf(p, w, h) == w * h + ((p \div w) \div 2) * w + ((p % w) \div 2) * 2

nv12_to_rgb(nv12, w, h) ==
    [p \in 0 .. w * h - 1 |->
        Rgb(nv12[p], nv12[ChromaOf(p, w, h)], nv12[ChromaOf(p, w, h) + 1])]

-----------------------------------------------------------------------------
(* resize_rgb, of one of the three colours.                                *)

\* Pixel i of to lies between two of from, part to-ths behind the first.
Between(i, from, to) ==
    LET lo == (i * from) \div to
    IN  [lo |-> lo, hi |-> IF lo + 1 < from THEN lo + 1 ELSE lo, part |-> (i * from) % to]

Blend(src, w, x, y, dw, dh) ==
    LET row(r) == src[r * w + x.lo] * (dw - x.part) + src[r * w + x.hi] * x.part
        sum == row(y.lo) * (dh - y.part) + row(y.hi) * y.part
    IN  (2 * sum + dw * dh) \div (2 * dw * dh)

resize_rgb(src, w, h, dw, dh) ==
    [p \in 0 .. dw * dh - 1 |->
        Blend(src, w, Between(p % dw, w, dw), Between(p \div dw, h, dh), dw, dh)]

-----------------------------------------------------------------------------
(* Detections.                                                             *)

COCO_CLASSES ==
    <<"person", "bicycle", "car", "motorcycle", "airplane", "bus", "train", "truck", "boat",
      "traffic light", "fire hydrant", "stop sign", "parking meter", "bench", "bird", "cat", "dog">>

\* The names of the classes from 17 on are told apart by nothing here.
npu_get_class_name(id) ==
    CASE id \in 0 .. Len(COCO_CLASSES) - 1 -> COCO_CLASSES[id + 1]
      [] id \in Len(COCO_CLASSES) .. 79    -> "another"
      [] OTHER                             -> "unknown"

\* The names Go has of its own.
COCOClassNames ==
    [id \in 0 .. 8 \cup {15, 16} |->
        CASE id = 0 -> "person" [] id = 1 -> "bicycle"  [] id = 2 -> "car"
          [] id = 3 -> "motorcycle" [] id = 4 -> "airplane" [] id = 5 -> "bus"
          [] id = 6 -> "train" [] id = 7 -> "truck" [] id = 8 -> "boat"
          [] id = 15 -> "cat" [] id = 16 -> "dog"]

GetClassName(id) == IF id \in DOMAIN COCOClassNames THEN COCOClassNames[id] ELSE "unknown"

Person == 0   \* YOLO_CLASS_PERSON

\* npu_set_confidence_threshold and npu_set_nms_threshold, given what is set.
SetThreshold(old, new) == IF new < 0 \/ new > 100 THEN old ELSE new

\* Stands for the network's output: a person in the middle, if the threshold lets it.
yolo_postprocess(max, threshold) ==
    IF max > 0 /\ threshold <= 80
    THEN <<[class |-> Person, confidence |-> 85, x |-> 500, y |-> 500]>> ELSE <<>>

isp_calculate_azimuth(x, fov) == (x - 500) * fov

isp_calculate_elevation(y, fov) == (500 - y) * fov

Placed(d, fov) ==
    [class |-> d.class, confidence |-> d.confidence, x |-> d.x, y |-> d.y,
     azimuth |-> isp_calculate_azimuth(d.x, fov.horizontal),
     elevation |-> isp_calculate_elevation(d.y, fov.vertical)]

\* Where the detections are that the filter for persons keeps.
Wanted(found, personOnly) == {i \in DOMAIN found : ~personOnly \/ found[i].class = Person}

\* npu_inference once the network has run: each detection is placed, then the others are left out.
Report(found, fov, personOnly) ==
    Filtered([i \in 1 .. Len(found) |-> Placed(found[i], fov)], Wanted(found, personOnly))

\* What npu_inference gives the network of a frame the size of the input, or another, in one colour.
NpuInput(picture, w, h, side) ==
    IF w = side /\ h = side THEN picture ELSE resize_rgb(picture, w, h, side, side)

\* npu_inference_nv12 up to the network, when it gets its buffer: the frame is converted in its own
\* size and then scaled.
npu_inference_nv12(frame, w, h, side) ==
    [colour \in 1 .. 3 |->
        NpuInput([p \in 0 .. w * h - 1 |-> nv12_to_rgb(frame, w, h)[p][colour]], w, h, side)]

-----------------------------------------------------------------------------
(* What is true of them.                                                   *)

Distance(a, b) == IF a < b THEN b - a ELSE a - b

\* One colour is that of the full-range standard (BT.601), two steps off at most; grey is grey.
IsStandard(y, u, v) ==
    LET c == Rgb(y, u, v)
        real == <<1000 * y + 1402 * (v - 128),
                  1000 * y - 344 * (u - 128) - 714 * (v - 128),
                  1000 * y + 1772 * (u - 128)>>
    IN  /\ \A i \in 1 .. 3 : Distance(c[i], Clamp(real[i] \div 1000)) <= 2
        /\ u = 128 /\ v = 128 => c = <<y, y, y>>

\* A frame of one colour: every y, then u and v in turns.
Plain(w, h, y, u, v) ==
    [i \in 0 .. (w * h * 3) \div 2 - 1 |-> IF i < w * h THEN y ELSE IF i % 2 = 0 THEN u ELSE v]

Around(src, w, x, y) == {src[r * w + c] : r \in {y.lo, y.hi}, c \in {x.lo, x.hi}}

\* Pixel p of a picture resized to the side d is not less and not more than those around it.
IsBetween(out, src, w, h, d, p) ==
    LET near == Around(src, w, Between(p % d, w, d), Between(p \div d, h, d))
    IN  out[p] \in Min(near) .. Max(near)

Box(d) == [class |-> d.class, confidence |-> d.confidence, x |-> d.x, y |-> d.y]

\* What is left in the frame is left of the axis and what is above it above, never beyond half the
\* field of view.
OnItsSide(d, fov) ==
    /\ d.azimuth \in -500 * fov.horizontal .. 500 * fov.horizontal
    /\ d.elevation \in -500 * fov.vertical .. 500 * fov.vertical
    /\ (d.azimuth < 0) = (d.x < 500)
    /\ (d.elevation > 0) = (d.y < 500)

\* A report keeps the order of what was found and all of it, or all the persons, each on its side.
IsPlaced(report, found, fov, personOnly) ==
    /\ IsFiltered([i \in DOMAIN report |-> Box(report[i])], found, Wanted(found, personOnly))
    /\ \A i \in DOMAIN report :
          OnItsSide(report[i], fov) /\ npu_get_class_name(report[i].class) # "unknown"
=============================================================================
