------------------------------ MODULE Encoding ------------------------------
(***************************************************************************)
(* What the encoder of the HDMI capture is told when a stream starts       *)
(* (video.c): the bit rate for the quality factor and the size of the      *)
(* picture, and the channel's attributes.  Factors are in hundredths,      *)
(* rates in kbit/s; pixels are counted in sixteens, so that products stay  *)
(* in TLC's 32 bits.                                                       *)
(***************************************************************************)
EXTENDS Integers

LowRate == 512     \* base_bitrate_low, base_bitrate_high and min_bitrate
HighRate == 2000
MinRate == 100

Pixels16(w, h) == (w * h) \div 16

\* The rate of a 1080p picture.
BaseRate(factor) == LowRate + ((HighRate - LowRate) * factor) \div 100

\* Mutant: a small picture gets what is left of the base.
calculate_bitrate_NoFloor(factor, w, h) ==
    (BaseRate(factor) * Pixels16(w, h)) \div Pixels16(1920, 1080)

calculate_bitrate(factor, w, h) ==
    LET scaled == (BaseRate(factor) * Pixels16(w, h)) \div Pixels16(1920, 1080)
    IN  IF scaled < MinRate THEN MinRate ELSE scaled

\* RK_ALIGN_2, a macro of the SDK.
RK_ALIGN_2(n) == n + (n % 2)

\* The attributes of the channel; a group of pictures is 60 frames, there are three stream buffers.
populate_venc_attr(bitrate, max_bitrate, w, h) ==
    [bitrate |-> bitrate, max |-> max_bitrate, gop |-> 60,
     width |-> w, height |-> h, virWidth |-> RK_ALIGN_2(w), virHeight |-> RK_ALIGN_2(h),
     buffers |-> 3, buffer |-> (w * h * 3) \div 2]

\* What run_video_stream asks venc_start for.
EncoderAttributes(factor, w, h) ==
    LET bitrate == calculate_bitrate(factor, w, h)
    IN  populate_venc_attr(bitrate, 2 * bitrate, w, h)

-----------------------------------------------------------------------------
(* What is true of them.                                                   *)

Sizes == {<<160, 120>>, <<320, 240>>, <<640, 480>>, <<720, 480>>, <<720, 576>>, <<800, 600>>,
          <<1024, 768>>, <<1280, 720>>, <<1366, 768>>, <<1280, 1024>>, <<1920, 1080>>}
Factors == {1, 10, 33, 50, 99, 100}
Attributes(s, f) == EncoderAttributes(f, s[1], s[2])

\* The rate is between the least and the 1080p rate of the best quality, which is reached; more
\* pixels or more quality never get less; and a second at the highest rate the encoder may use fits
\* into one of its buffers.
EveryRateFits ==
    /\ Attributes(<<1920, 1080>>, 100).bitrate = HighRate
    /\ \A s \in Sizes, f \in Factors :
          LET a == Attributes(s, f)
          IN  /\ a.bitrate \in MinRate .. HighRate
              /\ a.max * 125 <= a.buffer
              /\ a.virWidth \in a.width .. a.width + 1 /\ a.virHeight \in a.height .. a.height + 1
              /\ \A t \in Sizes, g \in Factors :
                    f <= g /\ s[1] * s[2] <= t[1] * t[2] => a.bitrate <= Attributes(t, g).bitrate
=============================================================================
