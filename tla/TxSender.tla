----------------------------- MODULE TxSender ------------------------------
(***************************************************************************)
(* Sending transactions (tx/sender.rs) for buys (execute_group_buy of      *)
(* main.rs) and sells.  A transaction is built with the tip of the plan's  *)
(* primary route and posted to all its channels at once: to the 0slot      *)
(* endpoints and nothing else, or to the RPC nodes and, when Jito is       *)
(* enabled, as a bundle and as a plain transaction to Jito's endpoints.    *)
(* Concurrent sends share the counter that rotates the endpoints.          *)
(***************************************************************************)
EXTENDS Integers, FiniteSets, Sequences

CONSTANTS
    Sends,          \* the sends
    Engines,        \* jito_block_engine_urls, which may hold the relay
    Relay           \* https://bundles.jito.wtf, which takes bundles only

VARIABLES
    routes,         \* what is configured: 0slot endpoints, a second RPC node, Jito
    step,           \* per send: "idle", "bundle", "tx", "answers" or "done"
    mode,           \* per send: one of Modes
    tip,            \* per send: whom its transaction pays: "0slot", "jito" or "none"
    counter,        \* jito_url_counter
    posted,         \* the requests: which send, over which channel, to which endpoint
    bundles,        \* the endpoints of the bundles, in the order of the counter
    outcome         \* per send: "sent", "failed" or "none" yet

vars == <<routes, step, mode, tip, counter, posted, bundles, outcome>>

Steps    == {"idle", "bundle", "tx", "answers", "done"}
Modes    == {"fire", "fanout", "sell", "jupiter"}   \* two kinds of buys and of sells
Channels == {"0slot", "rpc", "rpc2", "bundle", "tx"}
NoUrl    == "own"

(* new() adds the relay, and keeps it from plain transactions.               *)
BundleUrls == IF \E i \in DOMAIN Engines : Engines[i] = Relay THEN Engines
              ELSE Append(Engines, Relay)
Kept       == {i \in DOMAIN BundleUrls : BundleUrls[i] # Relay}
Rank(i)    == Cardinality({j \in Kept : j <= i})
TxUrls     == [n \in 1..Cardinality(Kept) |-> BundleUrls[CHOOSE i \in Kept : Rank(i) = n]]

Url(urls, n) == urls[(n % Len(urls)) + 1]

Message(s, channel, url) == [send |-> s, channel |-> channel, url |-> url]

Urls == {BundleUrls[i] : i \in DOMAIN BundleUrls} \cup {NoUrl}

TypeOK ==
    /\ routes \in [zero : BOOLEAN, second : BOOLEAN, jito : BOOLEAN]
    /\ step \in [Sends -> Steps] /\ mode \in [Sends -> Modes]
    /\ tip \in [Sends -> {"0slot", "jito", "none"}]
    /\ counter \in Nat
    /\ posted \subseteq {Message(s, c, u) : s \in Sends, c \in Channels, u \in Urls}
    /\ bundles \in Seq(Urls)
    /\ outcome \in [Sends -> {"sent", "failed", "none"}]

Init ==
    /\ routes \in [zero : BOOLEAN, second : BOOLEAN, jito : BOOLEAN]
    /\ step = [s \in Sends |-> "idle"] /\ mode = [s \in Sends |-> "fire"]
    /\ tip = [s \in Sends |-> "none"] /\ counter = 0
    /\ posted = {} /\ bundles = <<>> /\ outcome = [s \in Sends |-> "none"]

-----------------------------------------------------------------------------
(* ExecutionPlan::from_config; a sell pays Jito when it is enabled, whatever *)
(* the plan prefers, unless Jupiter has built it.                            *)
Primary == IF routes.zero THEN "0slot" ELSE IF routes.jito THEN "jito" ELSE "none"

Tip(m) == CASE m = "sell"    -> IF routes.jito THEN "jito" ELSE "none"
            [] m = "jupiter" -> "none"
            [] OTHER         -> Primary

(* zero_slot_only_mode; a sell never goes to 0slot.                          *)
ZeroOnly(m) == routes.zero /\ m \notin {"sell", "jupiter"}

(* as it would be without "skipping Jito channels"                           *)
JitoTooAnyway(m) == routes.jito

JitoToo(m) == routes.jito /\ ~ZeroOnly(m)

(* The profile uses all channels only for Jito without 0slot.                *)
Allowed(m) == m = "fanout" => routes.jito /\ ~routes.zero

RpcChannels == {"rpc"} \cup (IF routes.second THEN {"rpc2"} ELSE {})

(* fire_and_forget returns at once, send_all_channels awaits every answer.   *)
After(m, more) == IF more THEN "bundle" ELSE IF m = "fanout" THEN "answers" ELSE "done"

(* The transaction is built, and posted to 0slot or to the RPC nodes.        *)
Start(s, m) ==
    /\ step[s] = "idle"
    /\ Allowed(m)
    /\ mode' = [mode EXCEPT ![s] = m] /\ tip' = [tip EXCEPT ![s] = Tip(m)]
    /\ posted' = posted \cup
          {Message(s, c, NoUrl) : c \in IF ZeroOnly(m) THEN {"0slot"} ELSE RpcChannels}
    /\ step' = [step EXCEPT ![s] = After(m, JitoToo(m))]
    /\ outcome' = [outcome EXCEPT ![s] = IF step'[s] = "done" THEN "sent" ELSE "none"]
    /\ UNCHANGED <<routes, counter, bundles>>

(* next_jito_url, and next_jito_url_pair of which the second is not used.    *)
Bundle(s) ==
    /\ step[s] = "bundle"
    /\ counter' = counter + (IF mode[s] = "fanout" THEN 2 ELSE 1)
    /\ LET url == Url(BundleUrls, counter)
       IN  /\ posted' = posted \cup {Message(s, "bundle", url)}
           /\ bundles' = Append(bundles, url)
    /\ step' = [step EXCEPT ![s] = "tx"]
    /\ UNCHANGED <<routes, mode, tip, outcome>>

(* next_jito_tx_url, which answers none if the relay is the only endpoint.   *)
Plain(s) ==
    /\ step[s] = "tx"
    /\ IF TxUrls = <<>>
       THEN UNCHANGED <<counter, posted>>
       ELSE /\ counter' = counter + 1
            /\ posted' = posted \cup {Message(s, "tx", Url(TxUrls, counter))}
    /\ step' = [step EXCEPT ![s] = After(mode[s], FALSE)]
    /\ outcome' = [outcome EXCEPT ![s] = IF step'[s] = "done" THEN "sent" ELSE "none"]
    /\ UNCHANGED <<routes, mode, tip, bundles>>

(* Each request has been answered, refused or has timed out: that some       *)
(* channel answered with success is all that is kept of it.                  *)
Answers(s, success) ==
    /\ step[s] = "answers"
    /\ outcome' = [outcome EXCEPT ![s] = IF success THEN "sent" ELSE "failed"]
    /\ step' = [step EXCEPT ![s] = "done"]
    /\ UNCHANGED <<routes, mode, tip, counter, posted, bundles>>

Next ==
    \E s \in Sends :
        \/ \E m \in Modes : Start(s, m)
        \/ Bundle(s) \/ Plain(s)
        \/ \E success \in BOOLEAN : Answers(s, success)

Spec == Init /\ [][Next]_vars

-----------------------------------------------------------------------------
(* A transaction goes where its tip counts: what pays 0slot goes to 0slot    *)
(* only, Jito's endpoints get what pays Jito, and the relay is sent bundles  *)
(* only.  A sell that Jupiter has built is posted to Jito too, and pays it   *)
(* nothing.                                                                  *)
TipsMatchChannels ==
    \A m \in posted :
        /\ m.channel = "0slot" <=> tip[m.send] = "0slot"
        /\ m.channel \in {"bundle", "tx"} => tip[m.send] = "jito" \/ mode[m.send] = "jupiter"
        /\ m.url = Relay => m.channel = "bundle"

(* Bundles next to each other go to different endpoints, whose rate limits   *)
(* are separate, as long as there are more endpoints than what the counter   *)
(* can be advanced by between the two.                                       *)
BundlesSpread ==
    \A i \in 1..(Len(bundles) - 1) : bundles[i] # bundles[i + 1]

Tried(s) == {m.channel : m \in {n \in posted : n.send = s}}

JitoChannels == {"bundle"} \cup (IF TxUrls = <<>> THEN {} ELSE {"tx"})

(* What was sent has been posted to every channel of its route.              *)
AllChannelsTried ==
    \A s \in Sends : step[s] \in {"answers", "done"} =>
        Tried(s) = IF ZeroOnly(mode[s]) THEN {"0slot"}
                   ELSE RpcChannels \cup (IF routes.jito THEN JitoChannels ELSE {})

=============================================================================
