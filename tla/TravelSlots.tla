----------------------------- MODULE TravelSlots -----------------------------
(***************************************************************************)
(* Planning a journey over several messages of one conversation            *)
(* (services/chat_travel_flow): what a plan lacks is asked for, and a      *)
(* short reply fills it. The question that waits for its reply is in Redis *)
(* (core/memory_manager), the places said so far in the profile of the     *)
(* conversation (services/conversation_profiles).                          *)
(*                                                                         *)
(* Of a sentence only the places it names are kept.  Reading them back is  *)
(* not the identity: core/place_extract prefers the cities it has a list   *)
(* of.                                                                     *)
(***************************************************************************)
EXTENDS Naturals

CONSTANTS
    Places,
    Listed,       \* CITIES of core/place_extract
    Nowhere,      \* the empty string
    Messengers,   \* messages of the conversation under way at once
    Sayings,      \* bound: what a message says
    MaxMessages   \* bound

ASSUME TravelAssumption ==
    /\ Listed \subseteq Places /\ Nowhere \notin Places
    /\ Sayings \subseteq [kind : {"chat", "place", "cancel", "recommend", "other"}, to : Places \cup {Nowhere},
                          from : Places \cup {Nowhere}, place : Places \cup {Nowhere}]

VARIABLES
    slot,      \* conv_pending_travel:{user}:{conversation}
    stated,      \* destination and origin of conversation_profiles
    msg,       \* the messages under way
    messages   \* bound

travelVars == <<slot, stated, msg, messages>>

Said(to, from) == [to |-> to, from |-> from]
NoPlaces == Said(Nowhere, Nowhere)
NoSlot == [lacks |-> "nothing", places |-> NoPlaces, fresh |-> FALSE]
Silence == [at |-> "idle", says |-> [kind |-> "chat", to |-> Nowhere, from |-> Nowhere, place |-> Nowhere], sure |-> NoPlaces, asks |-> NoSlot,
            waiting |-> FALSE, clears |-> FALSE, plan |-> NoPlaces]

\* A question of an older version may still be there, without the time it was asked.
TravelInit ==
    /\ slot \in {NoSlot} \cup {[lacks |-> "from", places |-> Said(p, Nowhere), fresh |-> FALSE] : p \in Listed}
    /\ stated = NoPlaces
    /\ msg = [m \in Messengers |-> Silence]
    /\ messages = 0

-----------------------------------------------------------------------------

\* extract_departure finds whatever follows "from".  extract_destination: a listed city, first one that is not where the journey starts; else
\* the only listed city there is, be it the start; else what the sentence calls a destination.
ExtractDestination(s) == IF s.to \in Listed \/ s.from \notin Listed THEN s.to ELSE s.from

\* extract_profile_updates: of a bare place nothing is taken, it names no role.
Extracted(s) == Said(ExtractDestination(s), s.from)

\* Fault: what is stored wins.
OverlaidByOld(old, new) ==
    Said(IF old.to = Nowhere THEN new.to ELSE old.to, IF old.from = Nowhere THEN new.from ELSE old.from)

\* merge_profile: what is empty overwrites nothing.
Overlaid(old, new) ==
    Said(IF new.to = Nowhere THEN old.to ELSE new.to, IF new.from = Nowhere THEN old.from ELSE new.from)

\* build_travel_state merges what was stored with what the question says.
TravelState(stored, said) == Overlaid(stored, Extracted(said))

\* next_missing_travel_slot: the destination first.
NextMissing(s) == IF s.to = Nowhere THEN "to" ELSE IF s.from = Nowhere THEN "from" ELSE "nothing"

Goes(m, step) == msg' = [msg EXCEPT ![m] = step]

Arrive(m) ==
    /\ msg[m].at = "idle" /\ messages < MaxMessages
    /\ \E s \in Sayings : Goes(m, [Silence EXCEPT !.at = "routing", !.says = s])
    /\ messages' = messages + 1
    /\ UNCHANGED <<slot, stated>>

\* get_pending_travel, get_stored_profile: what cannot be read is not there.
PendingTravel == {slot, NoSlot}
StoredProfile == {stated, NoPlaces}

\* _pending_is_fresh, is_cancel_reply: a question that this message does not answer is dropped.
Drops(says, pending) == pending # NoSlot /\ (~pending.fresh \/ says.kind \in {"cancel", "recommend"})

\* apply_travel_memory: a message that asks for something else leaves the question for later.
ApplyTravelMemory(m) ==
    /\ msg[m].at = "routing"
    /\ \E pending \in PendingTravel :
         LET says == msg[m].says
             said == Said(says.to, says.from)
             drops == Drops(says, pending)
             recalls == pending # NoSlot /\ ~drops
         IN \/ /\ says.kind = "recommend"
               /\ Goes(m, [msg[m] EXCEPT !.at = "planning", !.sure = said, !.clears = drops])
            \/ /\ says.kind \in {"cancel", "other"} \/ ~recalls
               /\ says.kind # "recommend"
               /\ Goes(m, [msg[m] EXCEPT !.at = "answering", !.clears = drops])
            \/ /\ recalls /\ says.kind = "chat"
               /\ Goes(m, [msg[m] EXCEPT !.at = "planning", !.asks = pending, !.waiting = TRUE])
            \/ /\ recalls /\ says.kind = "place"
               /\ Goes(m, [msg[m] EXCEPT !.at = "filling", !.asks = pending])
    /\ UNCHANGED <<slot, stated, messages>>

\* The place fills what was asked for. A plan that lacks nothing more becomes the question.
PersistTravelSlot(m) ==
    LET pending == msg[m].asks
        filled == [pending.places EXCEPT ![pending.lacks] = msg[m].says.place]
        lacks == NextMissing(filled)
    IN /\ msg[m].at = "filling"
       /\ stated' = [stated EXCEPT ![pending.lacks] = msg[m].says.place]
       /\ Goes(m, [msg[m] EXCEPT !.at = "planning",
                                 !.sure = filled,
                                 !.asks = [lacks |-> lacks, places |-> filled, fresh |-> TRUE],
                                 !.waiting = lacks # "nothing",
                                 !.clears = lacks = "nothing"])
       /\ UNCHANGED <<slot, messages>>

\* route_intent falls back to an answer without tools.
FailToPersist(m) ==
    /\ msg[m].at = "filling"
    /\ Goes(m, [msg[m] EXCEPT !.at = "answering", !.asks = NoSlot])
    /\ UNCHANGED <<slot, stated, messages>>

\* build_travel_state in route_intent. The question is what the message says, or the plan that its reply made whole.
BuildTravelState(m) ==
    LET me == msg[m]
        question == IF me.says.kind = "recommend" \/ (me.asks # NoSlot /\ me.asks.lacks = "nothing")
                    THEN me.sure ELSE NoPlaces
    IN /\ me.at = "planning"
       /\ \E stored \in StoredProfile :
            LET state == TravelState(stored, question)
                lacks == NextMissing(state)
            IN Goes(m, IF lacks = "nothing" THEN [me EXCEPT !.at = "gate", !.plan = state]
                       ELSE [me EXCEPT !.at = "gate", !.waiting = TRUE, !.clears = FALSE,
                                       !.asks = [lacks |-> lacks, places |-> state, fresh |-> TRUE]])
       /\ UNCHANGED <<slot, stated, messages>>

\* travel_clarification_gate: who waits asks, whether or not the question could be stored;
\* the others go on to the four tools.
TravelClarificationGate(m) ==
    LET me == msg[m] IN
    /\ me.at = "gate"
    /\ IF me.waiting /\ me.asks # NoSlot
       THEN /\ slot' \in {slot, [me.asks EXCEPT !.fresh = TRUE]}
            /\ Goes(m, [me EXCEPT !.at = "answering", !.clears = FALSE])
       ELSE Goes(m, [me EXCEPT !.at = "tools"]) /\ UNCHANGED slot
    /\ UNCHANGED <<stated, messages>>

\* finalize_answer: the turn is saved, the profile told of what the message said, and a
\* question that was answered is cleared; any of it may fail, and the stream may end before.
FinalizeAnswer(m) ==
    /\ msg[m].at \in {"answering", "tools"}
    /\ stated' \in {stated, Overlaid(stated, Extracted(Said(msg[m].says.to, msg[m].says.from)))}
    /\ slot' \in {slot, IF msg[m].clears THEN NoSlot ELSE slot}
    /\ Goes(m, Silence)
    /\ UNCHANGED messages

\* PENDING_TRAVEL_TTL_SECONDS after it was asked.
QuestionLapses ==
    /\ slot # NoSlot /\ slot' = NoSlot
    /\ UNCHANGED <<stated, msg, messages>>

TravelNext ==
    \/ \E m \in Messengers :
         \/ Arrive(m) \/ ApplyTravelMemory(m) \/ PersistTravelSlot(m) \/ FailToPersist(m)
         \/ BuildTravelState(m) \/ TravelClarificationGate(m) \/ FinalizeAnswer(m)
    \/ QuestionLapses

TravelSpec == TravelInit /\ [][TravelNext]_travelVars

-----------------------------------------------------------------------------
(* Properties. *)

\* The four tools are asked about a whole plan, and about what this message said or its
\* reply confirmed, whatever the profile holds and whatever another message of the
\* conversation stores meanwhile.  Of destinations the listed ones only, see PlannedAsConfirmed.
PlannedAsSaid ==
    \A m \in Messengers : msg[m].at = "tools" =>
        LET plan == msg[m].plan
            sure == msg[m].sure
        IN /\ Nowhere \notin {plan.to, plan.from}
           /\ sure.from # Nowhere => plan.from = sure.from
           /\ sure.to \in Listed => plan.to = sure.to

\* chat_travel_flow.py: the query is made of the confirmed destination and departure.
PlannedAsConfirmed ==
    \A m \in Messengers : msg[m].at = "tools" =>
        msg[m].sure.to \in {Nowhere, msg[m].plan.to}
=============================================================================
