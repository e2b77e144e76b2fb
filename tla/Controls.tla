------------------------------ MODULE Controls ------------------------------
(***************************************************************************)
(* The controls of the camera's sensor (camera.c) and the modes of the ISP *)
(* (isp.c), as functions of what they hold and of which ioctls the driver  *)
(* accepts: a control is set in several of them, and a call may end        *)
(* between two.  A result says whether the call returned 0 and what is     *)
(* held then.  The ISP's library is a stub that accepts everything; the    *)
(* numbers for an exposure or a gain are left out where it drops them.     *)
(*                                                                         *)
(* The program calls isp_init, isp_shutdown, isp_set_ldch_enabled and      *)
(* isp_set_ldch_level (Vision); the other setters are offered by camera.h  *)
(* and isp.h to callers it does not have yet.                              *)
(***************************************************************************)
EXTENDS Naturals, Sequences

Refused(held) == [ok |-> FALSE, held |-> held]
Done(held) == [ok |-> TRUE, held |-> held]

-----------------------------------------------------------------------------
(* The sensor: a knob is automatic, or has a value.  The camera is open    *)
(* while it has the MIPI device; config is what g_camera says of it.       *)

\* The mode, then, if it is manual, the value; the first ioctl that is refused ends the call.
SetKnob(knob, auto, value, accepted) ==
    CASE "mode" \notin accepted -> Refused(knob)
      [] "mode" \in accepted /\ auto -> Done([knob EXCEPT !.auto = TRUE])
      [] accepted = {"mode"} /\ ~auto -> Refused([knob EXCEPT !.auto = FALSE])
      [] OTHER -> Done([auto |-> FALSE, value |-> value])

camera_set_exposure(camera, auto, value, accepted) ==
    LET set == SetKnob(camera.exposure, auto, value, accepted)
    IN  IF camera.open THEN [ok |-> set.ok, held |-> [camera EXCEPT !.exposure = set.held]]
                       ELSE Refused(camera)

camera_set_gain(camera, auto, value, accepted) ==
    LET set == SetKnob(camera.gain, auto, value, accepted)
    IN  IF camera.open THEN [ok |-> set.ok, held |-> [camera EXCEPT !.gain = set.held]]
                       ELSE Refused(camera)

\* What the device holds of an orientation after its two ioctls.
Turned(device, asked, accepted) ==
    [side \in {"mirror", "flip"} |-> IF side \in accepted THEN asked[side] ELSE device[side]]

\* Both ioctls are tried, and the configuration says what was asked for even so.
camera_set_orientation(camera, asked, accepted) ==
    IF ~camera.open THEN Refused(camera)
    ELSE [ok |-> {"mirror", "flip"} \subseteq accepted,
          held |-> [camera EXCEPT !.device = Turned(@, asked, accepted), !.config = asked]]

-----------------------------------------------------------------------------
(* The ISP, as far as its modes go.  What the 3A measures is never told to *)
(* it: exposure time, gain and colour temperature stay 0.                  *)

Modes == [auto_exposure : BOOLEAN, auto_white_balance : BOOLEAN, ldch_mesh_path : {"", "a", "b"}]
IspOff == [initialized |-> FALSE,
           config |-> [auto_exposure |-> FALSE, auto_white_balance |-> FALSE, ldch_mesh_path |-> ""]]

\* isp_init with the modes of a configuration; one that is initialized already keeps its own.
isp_init(i, modes) == IF i.initialized THEN Done(i) ELSE Done([initialized |-> TRUE, config |-> modes])

\* isp_shutdown leaves the configuration.
isp_shutdown(i) == Done([i EXCEPT !.initialized = FALSE])

isp_set_ldch_mesh(i, path) ==
    IF i.initialized THEN Done([i EXCEPT !.config.ldch_mesh_path = path]) ELSE Refused(i)

isp_set_exposure(i, auto) ==
    IF i.initialized THEN Done([i EXCEPT !.config.auto_exposure = auto]) ELSE Refused(i)

isp_set_white_balance(i, auto) ==
    IF i.initialized THEN Done([i EXCEPT !.config.auto_white_balance = auto]) ELSE Refused(i)

-----------------------------------------------------------------------------
(* What is true of them.                                                   *)

\* A call that returns 0 has set what was asked for.  One that fails has set no value, and no
\* automatic; what it may leave is a manual mode with the value of before.
TellsOf(set, knob, auto, value) ==
    /\ set.ok => set.held = [auto |-> auto, value |-> IF auto THEN knob.value ELSE value]
    /\ ~set.ok => set.held \in {knob, [knob EXCEPT !.auto = FALSE]} /\ set.held.value = knob.value

Apply(i, call) ==
    CASE call.f = "init" -> isp_init(i, call.v).held
      [] call.f = "shutdown" -> isp_shutdown(i).held
      [] call.f = "auto_exposure" -> isp_set_exposure(i, call.v).held
      [] call.f = "auto_white_balance" -> isp_set_white_balance(i, call.v).held
      [] call.f = "ldch_mesh_path" -> isp_set_ldch_mesh(i, call.v).held

\* The k-th of the calls finds the ISP initialized.
FindsItUp(calls, k) ==
    \E j \in 1 .. k - 1 : calls[j].f = "init" /\ \A l \in j .. k - 1 : calls[l].f # "shutdown"

\* The calls that decide a mode: its setter while the ISP is up, the initialization that brings it up.
Decides(calls, mode) ==
    {k \in DOMAIN calls : IF calls[k].f = "init" THEN ~FindsItUp(calls, k)
                          ELSE calls[k].f = mode /\ FindsItUp(calls, k)}

ModeAfter(calls, mode) ==
    LET deciding == Decides(calls, mode)
        last == CHOOSE k \in deciding : \A j \in deciding : j <= k
    IN  CASE deciding = {} -> IspOff.config[mode]
          [] deciding # {} /\ calls[last].f = "init" -> calls[last].v[mode]
          [] OTHER -> calls[last].v

\* The ISP after all of the calls.
IspAfter(calls) ==
    LET after[n \in 0 .. Len(calls)] ==
            IF n = 0 THEN IspOff ELSE Apply(after[n - 1], calls[n])
    IN  after[Len(calls)]
=============================================================================
