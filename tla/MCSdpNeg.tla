------------------------------ MODULE MCSdpNeg ------------------------------
(***************************************************************************)
(* Instances of SdpNeg for TLC.                                            *)
(***************************************************************************)
EXTENDS SdpNeg

CONSTANTS a, b

PCMU == [pt |-> 0, enc |-> "PCMU"]
G729 == [pt |-> 18, enc |-> "G729"]
Dynamic(pt, enc) == [pt |-> pt, enc |-> enc]
Medium(type, dir, fmts) == [type |-> type, port |-> TRUE, dir |-> dir, fmts |-> fmts]

\* One party numbers its dynamic payload types differently from the other, and
\* uses a number of the other for another encoding.
AudioA(dir) == Medium("audio", dir, <<PCMU, Dynamic(96, "speex"), Dynamic(101, "telephone-event")>>)
AudioB(dir) == Medium("audio", dir, <<Dynamic(97, "speex"), Dynamic(96, "telephone-event"), PCMU>>)
VideoA == Medium("video", Both, <<Dynamic(97, "H263"), Dynamic(98, "H264")>>)
VideoB == Medium("video", {"recv"}, <<Dynamic(98, "H263")>>)

\* One or two media, in either order; on hold; refused; without a common codec.
Caps == (a :> {<<AudioA({"send"})>>, <<VideoA, AudioA(Both)>>}
         @@ b :> {<<AudioB(Both), VideoB>>, <<Medium("audio", Both, <<G729>>)>>,
                  <<[AudioB(Both) EXCEPT !.port = FALSE], VideoB>>})
FewCaps == [Caps EXCEPT ![b] = {<<AudioB(Both), VideoB>>, <<Medium("audio", Both, <<G729>>)>>}]

\* What the application does: nothing out of turn, or any of these.
App(overlap, decline, nested) == [overlap |-> overlap, decline |-> decline, nested |-> nested]
InTurn == App(FALSE, FALSE, FALSE)

Config(prefer, multi, change, caps, app) ==
    [prefer |-> prefer, multi |-> multi, change |-> change, caps |-> caps] @@ app

MCConfigs == {Config(p, m, c, Caps, InTurn) : p \in BOOLEAN, m \in BOOLEAN, c \in BOOLEAN} \cup
             {Config(TRUE, FALSE, FALSE, FewCaps, App(o, d, n)) :
                 o \in BOOLEAN, d \in BOOLEAN, n \in BOOLEAN}
\* The parties of the default configuration.
MCDefault == {Config(TRUE, FALSE, FALSE, Caps, InTurn)}
=============================================================================
