--------------------------- MODULE SessionRatchet ---------------------------
(***************************************************************************)
(* The transport session of pkg/crypto/ratchet.go between two peers: each  *)
(* peer runs a SessionRatchetManager, whose threads decrypt concurrently   *)
(* under the read lock while EncryptPacket, RotateKeys and Close exclude   *)
(* each other and every reader.  The network loses, repeats and reorders   *)
(* frames, and damages them.                                               *)
(*                                                                         *)
(* A generation is one pair of TransportCipherStates negotiated by one     *)
(* handshake (noise.go); each peer has its own half.  Session ids are      *)
(* random and stand here for the generation they name.                     *)
(***************************************************************************)
EXTENDS AntiReplayWindow, FiniteSets

CONSTANTS
    Initiator, Responder,   \* the two peers of the session
    Senders,                \* bound: the peers whose outgoing frames we follow
    Threads,                \* receiving threads
    Owner,                  \* Owner[t]: the peer whose manager t calls
    MaxGen,                 \* bound: handshakes
    MaxSeq,                 \* bound: frames per generation and direction
    MaxFrames,              \* bound: frames in all
    MaxTime,                \* bound: clock
    DualKeyGracePeriod,     \* 15 seconds in the code
    None

Peers == {Initiator, Responder}
Gens == 1 .. MaxGen
Seqs == 0 .. MaxSeq

ASSUME SessionAssumption ==
    /\ Initiator # Responder
    /\ Senders \subseteq Peers
    /\ Owner \in [Threads -> Peers]
    /\ MaxGen \in Nat \ {0}
    /\ MaxSeq \in Nat
    /\ MaxTime \in Nat
    /\ DualKeyGracePeriod \in Nat

Other(p) == IF p = Initiator THEN Responder ELSE Initiator

\* A sealed frame: who can open it, under which generation, which counter.
Frame == [to : Peers, gen : Gens, seq : Seqs]

\* What DecryptPacket holds past its first window test.
Decryption == [frame : Frame, intact : BOOLEAN]

ASSUME NoneAssumption == None \notin Nat /\ None \notin Decryption

VARIABLES
    now,            \* the clock both peers read
    active,         \* active[p]: generation of activeState, or None
    previous,       \* previous[p]: generation of previousState, or None
    closed,         \* closed[p]
    created,        \* created[p][g]: CreatedAt of p's half of g, or None
    sendNonce,      \* sendNonce[p][g]
    window,         \* window[p][g]: AntiReplay of p's half of g
    wiped,          \* wiped[p]: generations whose keys p has overwritten
    net,            \* every frame ever sealed: the network may repeat it
    decrypting,     \* decrypting[t]: the frame t holds past Check, or None
    deliveries      \* deliveries[f]: plaintexts handed out for frame f

mgrVars == <<active, previous, closed, created, sendNonce, wiped>>
vars == <<now, mgrVars, window, net, decrypting, deliveries>>

\* Variant: the lock covers the active half only.
ReadersOfActive(p) ==
    {t \in Threads : Owner[t] = p /\ decrypting[t] # None
                                  /\ decrypting[t].frame.gen = active[p]}

\* The threads inside DecryptPacket at p: they hold p's read lock.
Readers(p) == {t \in Threads : Owner[t] = p /\ decrypting[t] # None}

Init ==
    /\ now = 0
    /\ active = [p \in Peers |-> 1]
    /\ previous = [p \in Peers |-> None]
    /\ closed = [p \in Peers |-> FALSE]
    /\ created = [p \in Peers |-> [g \in Gens |-> IF g = 1 THEN 0 ELSE None]]
    /\ sendNonce = [p \in Peers |-> [g \in Gens |-> 0]]
    /\ window = [p \in Peers |-> [g \in Gens |-> NewAntiReplayWindow]]
    /\ wiped = [p \in Peers |-> {}]
    /\ net = {}
    /\ decrypting = [t \in Threads |-> None]
    /\ deliveries = [f \in Frame |-> 0]
-----------------------------------------------------------------------------
Tick ==
    /\ now < MaxTime
    /\ now' = now + 1
    /\ UNCHANGED <<mgrVars, window, net, decrypting, deliveries>>

\* p completes its act of the next handshake: the responder in
\* ProcessHandshakeAct1, the initiator later, or never if act 2 is lost.
Handshake(p, g) ==
    /\ created[p][g] = None
    /\ \A h \in 1 .. g - 1 : created[p][h] # None
    /\ p = Initiator => created[Responder][g] # None
    /\ created' = [created EXCEPT ![p][g] = now]
    /\ UNCHANGED <<now, active, previous, closed, sendNonce, wiped,
                   window, net, decrypting, deliveries>>

\* EncryptPacket: the counter is taken and advanced under the write lock.
EncryptPacket(p) ==
    LET g == active[p] IN
    /\ Readers(p) = {}
    /\ ~closed[p]
    /\ g # None
    /\ sendNonce[p][g] < MaxSeq
    /\ Cardinality(net) < MaxFrames
    /\ sendNonce' = [sendNonce EXCEPT ![p][g] = @ + 1]
    /\ net' = net \cup {[to |-> Other(p), gen |-> g, seq |-> sendNonce[p][g]]}
    /\ UNCHANGED <<now, active, previous, closed, created, wiped,
                   window, decrypting, deliveries>>

\* The half DecryptPacket picks for a frame of generation g: the active one,
\* or the previous one while the active one is younger than the grace period.
Routes(p, g) ==
    \/ g = active[p]
    \/ /\ g = previous[p]
       /\ now - created[p][active[p]] <= DualKeyGracePeriod

\* DecryptPacket up to the AEAD: read lock, routing and the first window test.
\* A frame that fails one of them is dropped without any change of state.
BeginDecrypt(t, f, intact) ==
    LET p == Owner[t] IN
    /\ decrypting[t] = None
    /\ f.to = p
    /\ ~closed[p]
    /\ active[p] # None
    /\ Routes(p, f.gen)
    /\ Check(window[p][f.gen], f.seq)
    /\ decrypting' = [decrypting EXCEPT ![t] = [frame |-> f, intact |-> intact]]
    /\ UNCHANGED <<now, mgrVars, window, net, deliveries>>

\* The AEAD opens what the peer sealed, as long as the key is still there.
Opens(t) ==
    /\ decrypting[t].intact
    /\ decrypting[t].frame.gen \notin wiped[Owner[t]]

\* DecryptPacket from the AEAD on, when it hands out the plaintext: the
\* window is tested again and updated in one critical section.
FinishDecrypt(t) ==
    LET p == Owner[t]
        f == decrypting[t].frame
    IN
    /\ decrypting[t] # None
    /\ Opens(t)
    /\ Check(window[p][f.gen], f.seq)
    /\ window' = [window EXCEPT ![p][f.gen] = Add(@, f.seq)]
    /\ deliveries' = [deliveries EXCEPT ![f] = @ + 1]
    /\ decrypting' = [decrypting EXCEPT ![t] = None]
    /\ UNCHANGED <<now, mgrVars, net>>

\* DecryptPacket from the AEAD on, when it returns an error.
RefuseDecrypt(t) ==
    LET p == Owner[t]
        f == decrypting[t].frame
    IN
    /\ decrypting[t] # None
    /\ ~Opens(t) \/ ~Check(window[p][f.gen], f.seq)
    /\ decrypting' = [decrypting EXCEPT ![t] = None]
    /\ UNCHANGED <<now, mgrVars, window, net, deliveries>>

\* RotateKeys with a half that was never installed before: the outgoing
\* previous keys are wiped, the active half retires.  A closed manager
\* accepts the half as well.
RotateKeys(p, g) ==
    /\ created[p][g] # None
    /\ g \notin wiped[p] \cup {active[p], previous[p]}
    /\ Readers(p) = {}
    /\ wiped' = [wiped EXCEPT ![p] = @ \cup ({previous[p]} \ {None})]
    /\ previous' = [previous EXCEPT ![p] = active[p]]
    /\ active' = [active EXCEPT ![p] = g]
    /\ UNCHANGED <<now, closed, created, sendNonce, window, net, decrypting,
                   deliveries>>

Close(p) ==
    /\ Readers(p) = {}
    /\ closed' = [closed EXCEPT ![p] = TRUE]
    /\ wiped' = [wiped EXCEPT ![p] = @ \cup ({active[p], previous[p]} \ {None})]
    /\ active' = [active EXCEPT ![p] = None]
    /\ previous' = [previous EXCEPT ![p] = None]
    /\ UNCHANGED <<now, created, sendNonce, window, net, decrypting, deliveries>>

\* A frame of the network arrives, intact or not; damage may hit the counter.
Arrive(t) ==
    \/ \E f \in net : BeginDecrypt(t, f, TRUE)
    \/ \E f \in net, seq \in Seqs :
            BeginDecrypt(t, [f EXCEPT !.seq = seq], FALSE)

Next ==
    \/ Tick
    \/ \E p \in Peers, g \in Gens : Handshake(p, g) \/ RotateKeys(p, g)
    \/ \E p \in Senders : EncryptPacket(p)
    \/ \E p \in Peers : Close(p)
    \/ \E t \in Threads : Arrive(t) \/ FinishDecrypt(t) \/ RefuseDecrypt(t)

Spec == Init /\ [][Next]_vars
-----------------------------------------------------------------------------
MaybeGen == Gens \cup {None}

TypeOK ==
    /\ now \in Nat
    /\ active \in [Peers -> MaybeGen]
    /\ previous \in [Peers -> MaybeGen]
    /\ closed \in [Peers -> BOOLEAN]
    /\ created \in [Peers -> [Gens -> Nat \cup {None}]]
    /\ sendNonce \in [Peers -> [Gens -> Seqs]]
    /\ window \in [Peers -> [Gens -> Window]]
    /\ wiped \in [Peers -> SUBSET Gens]
    /\ net \subseteq Frame
    /\ decrypting \in [Threads -> Decryption \cup {None}]
    /\ deliveries \in [Frame -> Nat]

\* The counters p has handed plaintexts out for under generation g.
Accepted(p, g) ==
    {s \in Seqs : deliveries[[to |-> p, gen |-> g, seq |-> s]] > 0}

\* The window always describes the plaintexts handed out, and nothing else:
\* a frame that fails the AEAD leaves no trace, however large its counter,
\* and no interleaving of DecryptPacket calls (which test the window, drop
\* its mutex, decrypt, and take it again) loses or duplicates an entry.
WindowMatchesDeliveries ==
    \A p \in Peers, g \in Gens : Remembers(window[p][g], Accepted(p, g))

\* Every frame is opened at most once, and only frames the peer sealed are:
\* the session implements the channel, with the frame as the message.
Channel == INSTANCE AtMostOnceChannel WITH
    Message <- Frame, sent <- net, received <- deliveries

ImplementsChannel == Channel!Spec

\* The other half of the promise: a frame that was not delivered yet, is not
\* WindowSizeBits behind and is addressed to the active half, or to the
\* previous one inside the grace period, still gets past the window.
NoFalseReplay ==
    \A f \in net :
        LET w == window[f.to][f.gen] IN
        (deliveries[f] = 0 /\ f.seq > w.maxSeq - WindowSizeBits)
            => Check(w, f.seq)

\* Keys are overwritten only once nothing can use them any more: neither the
\* manager's two halves nor a decryption in progress hold wiped keys, so a
\* frame is never opened or sealed under zeroes (RotateKeys and Close wait
\* for the readers).
KeysInUseIntact ==
    /\ \A p \in Peers : {active[p], previous[p]} \cap wiped[p] = {}
    /\ \A t \in Threads :
        decrypting[t] # None => decrypting[t].frame.gen \notin wiped[Owner[t]]
=============================================================================
