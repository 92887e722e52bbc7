----------------------------- MODULE TvSession -----------------------------
(***************************************************************************)
(* The samsung-key block (SamsungTizenKeysBlock.cpp) and TvController: one *)
(* WebSocket session, kept open between blocks and runs, to one of several *)
(* TVs at a time, and one pairing token for all of them.                   *)
(*                                                                         *)
(* The socket and the TVs are external.  Events reach the controller only  *)
(* while a block calls ws_.loop(); a connection may be lost at any time    *)
(* and the socket, once begun, connects again by itself to the path it was *)
(* begun with.  Time is abstract: recent says that the last key is within  *)
(* REUSE_WINDOW_MS, and every wait may end at any point.                   *)
(*                                                                         *)
(* Of Config only the token is here.  A save of it may do nothing, when    *)
(* the web server's task has the shared Preferences closed or open, and a  *)
(* restart may come before its write; ConfigStore has the steps.           *)
(***************************************************************************)
EXTENDS Naturals

CONSTANTS Tvs, NoTv, NoToken,
          Torn,               \* a string read while it is assigned
          MaxTokens           \* bound on the tokens a TV ever issues

Tokens == Tvs \X (1..MaxTokens)

ASSUME TvAssumption ==
  NoTv \notin Tvs /\ MaxTokens \in Nat /\ {NoToken, Torn} \cap Tokens = {}

VARIABLES
  pc,                         \* the block: where its run is
  target,                     \* the block's parameter ip
  tvIp, recent,               \* the block's statics, between runs
  ip_, token_, connected_,    \* TvController
  host, path, link,           \* ws_: the TV and token begun with, its state
  tvToken, saved,             \* Config::tvToken in memory and in NVS
  saving,                     \* the block is in Config::save
  issued,                     \* the TVs: how many tokens each has issued
  last,                       \* history: the last token a TV has sent
  harmed                      \* history: NVS may lack it, as a save did nothing
                              \* or was cut off, or /reset erased the token

block == <<pc, target, tvIp, recent>>
socket == <<host, path, link>>
config == <<tvToken, saved, saving, harmed>>
vars == <<block, ip_, token_, connected_, socket, config, issued, last>>

Init ==
  /\ pc = "idle" /\ target = NoTv /\ tvIp = NoTv /\ recent = FALSE
  /\ ip_ = NoTv /\ token_ = NoToken /\ connected_ = FALSE
  /\ host = NoTv /\ path = NoToken /\ link = "closed"
  /\ tvToken = NoToken /\ saved = NoToken /\ saving = FALSE /\ harmed = FALSE
  /\ issued = [tv \in Tvs |-> 0] /\ last = NoToken

\* The block goes on once a save it is in has returned.
Goto(a, b) == pc = a /\ ~saving /\ pc' = b
Pumping == pc \in {"connect", "pump", "reuse", "flush"} /\ ~saving
Valid(tv, token) == token \in {tv} \X (1..issued[tv])

-----------------------------------------------------------------------------
(* The TVs and the network *)

\* The library opens the connection, first or again: WStype_CONNECTED.
Open ==
  /\ Pumping /\ host # NoTv /\ link = "closed"
  /\ link' = "open"
  /\ UNCHANGED <<block, ip_, token_, connected_, host, path, config, issued, last>>

\* Mutant: only the first token is passed on.
onTokenFirst(t) ==
  /\ token_' = t
  /\ IF token_ = NoToken /\ t # tvToken
       THEN tvToken' = t /\ saving' = TRUE /\ UNCHANGED <<saved, harmed>>
       ELSE UNCHANGED config

\* The callback of TvController::onEvent assigns the token and calls save().  The
\* run whose context it refers to may be over: loop() keeps the context of every
\* run at the same place.
onToken(t) ==
  /\ token_' = t
  /\ IF t # token_ /\ t # tvToken
       THEN tvToken' = t /\ saving' = TRUE /\ UNCHANGED <<saved, harmed>>
       ELSE UNCHANGED config

\* ms.channel.connect: the TV knows the token of the path, and may send it, or its
\* owner has accepted the device on the remote and the TV issues a token.
Join ==
  /\ Pumping /\ link = "open"
  /\ link' = "joined" /\ connected_' = TRUE
  /\ \/ /\ Valid(host, path)
        /\ \/ onToken(path) /\ last' = path
           \/ UNCHANGED <<token_, config, last>>
        /\ UNCHANGED issued
     \/ /\ ~Valid(host, path) /\ issued[host] < MaxTokens
        /\ issued' = [issued EXCEPT ![host] = @ + 1]
        /\ onToken(<<host, issued'[host]>>) /\ last' = <<host, issued'[host]>>
  /\ UNCHANGED <<block, ip_, host, path>>

\* save() in the block: the token is written, or the Preferences were closed by
\* the other task meanwhile and nothing is.
SaveToken ==
  /\ saving /\ saving' = FALSE
  /\ \/ saved' = tvToken /\ harmed' = FALSE
     \/ saved' = saved /\ harmed' = TRUE
  /\ UNCHANGED <<block, ip_, token_, connected_, socket, tvToken, issued, last>>

-----------------------------------------------------------------------------
(* The web server's task *)

\* POST /save writes the token with the rest, or nothing; what it reads while
\* the block assigns the token may be neither the old one nor the new.
WebSave ==
  /\ \/ saved' = tvToken /\ UNCHANGED harmed
     \/ saving /\ saved' = Torn /\ harmed' = TRUE
  /\ UNCHANGED <<block, ip_, token_, connected_, socket, tvToken, saving, issued, last>>

\* POST /reset erases what is in NVS, not what is in memory.
Reset ==
  /\ saved' = NoToken /\ harmed' = TRUE
  /\ UNCHANGED <<block, ip_, token_, connected_, socket, tvToken, saving, issued, last>>

-----------------------------------------------------------------------------
(* The network, time and power *)

\* The connection breaks; the controller hears of it in a later ws_.loop().
Lose ==
  /\ link \in {"open", "joined"}
  /\ link' = "lost"
  /\ UNCHANGED <<block, ip_, token_, connected_, host, path, config, issued, last>>

Disconnected ==
  /\ Pumping /\ link = "lost"
  /\ link' = "closed" /\ connected_' = FALSE
  /\ UNCHANGED <<block, ip_, token_, host, path, config, issued, last>>

\* The 30 seconds of REUSE_WINDOW_MS pass.
Age ==
  /\ pc = "idle" /\ recent
  /\ recent' = FALSE
  /\ UNCHANGED <<pc, target, tvIp, ip_, token_, connected_, socket, config, issued, last>>

\* Power is lost, or a handler has called ESP.restart(), maybe before the write of
\* a save.
Restart ==
  /\ pc' = "idle" /\ target' = NoTv /\ tvIp' = NoTv /\ recent' = FALSE
  /\ ip_' = NoTv /\ token_' = NoToken /\ connected_' = FALSE
  /\ host' = NoTv /\ path' = NoToken /\ link' = "closed"
  /\ tvToken' = saved /\ saving' = FALSE /\ harmed' = (harmed \/ saving)
  /\ UNCHANGED <<saved, issued, last>>

-----------------------------------------------------------------------------
(* SamsungKeyBlock::run *)

\* Mutant: a session to any TV is reused.
needConnectAnyTv(tv) == tvIp = NoTv \/ ~recent

needConnect(tv) == tvIp # tv \/ ~recent

Reuse(tv) ==
  /\ Goto("idle", "reuse") /\ ~needConnect(tv)
  /\ target' = tv
  /\ UNCHANGED <<tvIp, recent, ip_, token_, connected_, socket, config, issued, last>>

\* Mutant: the controller is configured for a first pairing.
ConfigureAnew(tv) ==
  /\ Goto("idle", "probe") /\ needConnect(tv)
  /\ target' = tv /\ tvIp' = NoTv
  /\ ip_' = tv /\ token_' = NoToken
  /\ UNCHANGED <<recent, connected_, socket, config, issued, last>>

\* Mutant: the arguments of configure() change places.
ConfigureSwapped(tv) ==
  /\ Goto("idle", "probe") /\ needConnect(tv)
  /\ target' = tv /\ tvIp' = NoTv
  /\ ip_' = tvToken /\ token_' = tv
  /\ UNCHANGED <<recent, connected_, socket, config, issued, last>>

\* disconnect() the old session, if there is one, and configure().
Configure(tv) ==
  /\ Goto("idle", "probe") /\ needConnect(tv)
  /\ target' = tv /\ tvIp' = NoTv
  /\ IF tvIp # NoTv THEN link' = "closed" /\ connected_' = FALSE
                    ELSE UNCHANGED <<link, connected_>>
  /\ ip_' = tv /\ token_' = tvToken
  /\ UNCHANGED <<recent, host, path, config, issued, last>>

\* connectWithRetry: the probe never gets through.
Unreachable ==
  /\ Goto("probe", "idle")
  /\ UNCHANGED <<target, tvIp, recent, ip_, token_, connected_, socket, config, issued, last>>

\* The probe does, and the socket is begun anew; nothing of the budget may be
\* left for waiting.
Begin ==
  /\ Goto("probe", "connect") \/ Goto("probe", "idle")
  /\ host' = ip_ /\ path' = token_ /\ link' = "closed"
  /\ UNCHANGED <<target, tvIp, recent, ip_, token_, connected_, config, issued, last>>

Connected ==
  /\ Goto("connect", "pump") /\ connected_
  /\ tvIp' = target
  /\ UNCHANGED <<target, recent, ip_, token_, connected_, socket, config, issued, last>>

TimedOut ==
  /\ Goto("connect", "idle") /\ ~connected_
  /\ UNCHANGED <<target, tvIp, recent, ip_, token_, connected_, socket, config, issued, last>>

\* pump(200) or pump(20) is over and sendKey is called.  The socket takes the
\* message while it holds the connection for open.
SendOk ==
  /\ Goto("pump", "flush") \/ Goto("reuse", "flush")
  /\ connected_ /\ link # "closed"
  /\ UNCHANGED <<target, tvIp, recent, ip_, token_, connected_, socket, config, issued, last>>

SendFails ==
  /\ Goto("pump", "idle") \/ Goto("reuse", "idle")
  /\ ~connected_ \/ link \in {"closed", "lost"}
  /\ tvIp' = NoTv
  /\ UNCHANGED <<target, recent, ip_, token_, connected_, socket, config, issued, last>>

\* pump(80), and the time of the last key is taken.
Done ==
  /\ Goto("flush", "idle")
  /\ recent' = TRUE
  /\ UNCHANGED <<target, tvIp, ip_, token_, connected_, socket, config, issued, last>>

Next ==
  \/ Open \/ Join \/ SaveToken \/ WebSave \/ Reset
  \/ Lose \/ Disconnected \/ Age \/ Restart
  \/ \E tv \in Tvs : Reuse(tv) \/ Configure(tv)
  \/ Unreachable \/ Begin \/ Connected \/ TimedOut \/ SendOk \/ SendFails \/ Done

Spec == Init /\ [][Next]_vars

-----------------------------------------------------------------------------
(* Properties *)

\* Every variable keeps its type.
TypeOK ==
  /\ pc \in {"idle", "probe", "connect", "pump", "reuse", "flush"}
  /\ {target, tvIp, ip_, host} \subseteq Tvs \cup {NoTv}
  /\ recent \in BOOLEAN /\ connected_ \in BOOLEAN
  /\ link \in {"closed", "open", "joined", "lost"}
  /\ {token_, path, tvToken, saved, last} \subseteq Tokens \cup {NoToken, Torn}
  /\ issued \in [Tvs -> 0..MaxTokens]
  /\ saving \in BOOLEAN /\ harmed \in BOOLEAN

\* A key that the block reports as sent went over a connection to the TV the
\* block names, whatever sessions to other TVs were opened, lost or failed
\* before (SamsungTizenKeysBlock.cpp:60-85).
KeyGoesToItsTv == pc = "flush" => host = target

\* Once a save is over, the last token a TV has sent is in memory and in NVS, so a
\* restart does not lose it (TvController.cpp:115-126): the two comparisons that
\* spare a write never spare a needed one, whichever TVs send their tokens again,
\* unless a save did nothing or was cut off, or a reset has erased the token.
LastTokenIsSaved == ~saving /\ ~harmed => tvToken = last /\ saved = last

\* A session is begun with a token its TV has issued, also after a restart, unless
\* the TV has issued none, the one token there is room for has since come from
\* another TV, or NVS lost it as harmed says.
TokenIsReused ==
  [][\A tv \in Tvs : Configure(tv) =>
       issued[tv] = 0 \/ Valid(tv, token_') \/ tv # last[1] \/ harmed]_vars
=============================================================================
