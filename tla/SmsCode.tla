------------------------------ MODULE SmsCode ------------------------------
(***************************************************************************)
(* Codes sent to phones and the guesses at them: routes/phone.py with      *)
(* routes/sms_lua.py and services/sms_ip_quota.py, for the phones one      *)
(* address asks for. A sending request awaits between its actions; each    *)
(* Redis script is one action. Codes are numbered as they are drawn; a     *)
(* guess is a number. core/sms.py gives up on the gateway long before the  *)
(* minute between two codes of a phone is over, so that minute lapses only *)
(* when no request for the phone is under way.                             *)
(***************************************************************************)
EXTENDS Requests, Naturals, FiniteSets

CONSTANTS
    Phones,
    HourLimit, DayLimit,   \* SMS_SEND_HOUR_LIMIT, SMS_IP_DAY_LIMIT
    AttemptLimit,          \* SMS_ATTEMPT_LIMIT
    MaxCodes               \* bound: codes drawn

ASSUME SmsAssumption == {HourLimit, DayLimit, AttemptLimit, MaxCodes} \subseteq Nat \ {0}

VARIABLES
    minute, hour, day,       \* phone_sms_min, phone_sms_hour, phone_sms_ip_day
    code, attempts, barred,  \* phone_code, phone_code_attempts, phone_code_lock
    drawn,                   \* codes drawn so far
    delivered,               \* history: the code each phone was told of last and can still use
    sentToday,               \* history: messages sent since the day count began
    guesses,                 \* history: wrong guesses since the count or the lock last lapsed
    send                     \* the sending requests under way

smsVars == <<minute, hour, day, code, attempts, barred, drawn, delivered, sentToday, guesses, send>>
limits == <<minute, hour, day>>
checks == <<code, attempts, barred, delivered, guesses>>

Unsent == [pc |-> "idle", phone |-> None, code |-> 0]

SmsTypeOK ==
    /\ minute \subseteq Phones /\ hour \in [Phones -> 0..HourLimit] /\ day \in 0..DayLimit
    /\ code \in [Phones -> 0..MaxCodes] /\ delivered \in [Phones -> 0..MaxCodes]
    /\ attempts \in [Phones -> 0..(AttemptLimit - 1)] /\ barred \subseteq Phones
    /\ drawn \in 0..MaxCodes

SmsInit ==
    /\ minute = {} /\ hour = [f \in Phones |-> 0] /\ day = 0
    /\ code = [f \in Phones |-> 0] /\ attempts = [f \in Phones |-> 0] /\ barred = {}
    /\ drawn = 0 /\ delivered = [f \in Phones |-> 0]
    /\ sentToday = 0 /\ guesses = [f \in Phones |-> 0]
    /\ send = [p \in Procs |-> Unsent]

SendsOn(p, pc) == send' = [send EXCEPT ![p].pc = pc]
SendsNoMore(p) == send' = [send EXCEPT ![p] = Unsent]

-----------------------------------------------------------------------------
(* send_phone_code.                                                        *)

\* Fault: the limit itself still has room.
HeadroomAtLimit == day <= DayLimit

\* assert_ip_day_headroom: a look at the count, which stays as it is.
Headroom == day < DayLimit

AskCode(p, f) ==
    /\ send[p].pc = "idle" /\ Headroom
    /\ send' = [send EXCEPT ![p] = [pc |-> "rate", phone |-> f, code |-> 0]]
    /\ UNCHANGED <<limits, checks, drawn, sentToday>>

\* Fault: only the count of the hour decides.
SendableInHour(f) == hour[f] < HourLimit

\* SMS_SEND_LUA lets pass: the hour has room and the minute is over.
Sendable(f) == hour[f] < HourLimit /\ f \notin minute

CheckRate(p) ==
    LET f == send[p].phone IN
    /\ send[p].pc = "rate"
    /\ IF Sendable(f)
       THEN /\ hour' = [hour EXCEPT ![f] = @ + 1] /\ minute' = minute \cup {f}
            /\ SendsOn(p, "store")
       ELSE SendsNoMore(p) /\ UNCHANGED <<hour, minute>>
    /\ UNCHANGED <<day, checks, drawn, sentToday>>

StoreCode(p) ==
    LET f == send[p].phone IN
    /\ send[p].pc = "store" /\ drawn < MaxCodes
    /\ drawn' = drawn + 1
    /\ code' = [code EXCEPT ![f] = drawn + 1]
    /\ delivered' = [delivered EXCEPT ![f] = 0]
    /\ send' = [send EXCEPT ![p].pc = "send", ![p].code = drawn + 1]
    /\ UNCHANGED <<limits, attempts, barred, guesses, sentToday>>

\* send_sms: the message is out, or it failed, or nobody knows and it counts as failed.
SendMessage(p) ==
    LET f == send[p].phone IN
    /\ send[p].pc = "send"
    /\ \/ /\ delivered' = [delivered EXCEPT ![f] = IF code[f] = send[p].code THEN code[f] ELSE @]
          /\ sentToday' = sentToday + 1
          /\ SendsOn(p, "book")
       \/ SendsOn(p, "clean") /\ UNCHANGED <<delivered, sentToday>>
    /\ UNCHANGED <<limits, code, attempts, barred, guesses, drawn>>

\* SMS_IP_DAY_LUA: past the limit the count is taken back and the answer is 429.
BookDay(p) ==
    /\ send[p].pc = "book"
    /\ day' = IF day < DayLimit THEN day + 1 ELSE day
    /\ SendsNoMore(p)
    /\ UNCHANGED <<minute, hour, checks, drawn, sentToday>>

DropCode(p) ==
    /\ send[p].pc = "clean"
    /\ code' = [code EXCEPT ![send[p].phone] = 0]
    /\ SendsNoMore(p)
    /\ UNCHANGED <<limits, attempts, barred, delivered, guesses, drawn, sentToday>>

-----------------------------------------------------------------------------
(* _verify_phone_code, one script.                                         *)

CodeMatches(f, g) == code[f] # 0 /\ g = code[f]

\* A wrong guess; the last allowed one bars the phone.
Miss(f) ==
    /\ attempts' = [attempts EXCEPT ![f] = (@ + 1) % AttemptLimit]
    /\ barred' = IF attempts[f] + 1 >= AttemptLimit THEN barred \cup {f} ELSE barred

VerifyCode(f, g) ==
    /\ f \notin barred /\ code[f] # 0
    /\ IF CodeMatches(f, g)
       THEN /\ code' = [code EXCEPT ![f] = 0] /\ attempts' = [attempts EXCEPT ![f] = 0]
            /\ delivered' = [delivered EXCEPT ![f] = 0]
            /\ guesses' = [guesses EXCEPT ![f] = 0]
            /\ UNCHANGED barred
       ELSE /\ Miss(f)
            /\ guesses' = [guesses EXCEPT ![f] = @ + 1]
            /\ UNCHANGED <<code, delivered>>
    /\ UNCHANGED <<limits, drawn, sentToday, send>>

-----------------------------------------------------------------------------
(* Keys lapse.                                                             *)

MinuteLapses(f) ==
    /\ f \in minute /\ \A p \in Procs : send[p].pc \in {"idle", "rate"} \/ send[p].phone # f
    /\ minute' = minute \ {f}
    /\ UNCHANGED <<hour, day, checks, drawn, sentToday, send>>

HourLapses(f) ==
    /\ hour[f] > 0 /\ hour' = [hour EXCEPT ![f] = 0]
    /\ UNCHANGED <<minute, day, checks, drawn, sentToday, send>>

\* A day ends while no message is under way.
DayLapses ==
    /\ day > 0 /\ \A p \in Procs : send[p].pc = "idle"
    /\ day' = 0 /\ sentToday' = 0
    /\ UNCHANGED <<minute, hour, checks, drawn, send>>

CodeLapses(f) ==
    /\ code[f] # 0
    /\ code' = [code EXCEPT ![f] = 0] /\ delivered' = [delivered EXCEPT ![f] = 0]
    /\ UNCHANGED <<limits, attempts, barred, guesses, drawn, sentToday, send>>

BarLapses(f) ==
    /\ f \in barred \/ attempts[f] > 0
    /\ barred' = barred \ {f}
    /\ attempts' = [attempts EXCEPT ![f] = 0] /\ guesses' = [guesses EXCEPT ![f] = 0]
    /\ UNCHANGED <<limits, code, delivered, drawn, sentToday, send>>

SmsNext ==
    \/ \E p \in Procs :
         \/ \E f \in Phones : AskCode(p, f)
         \/ CheckRate(p) \/ StoreCode(p) \/ SendMessage(p) \/ BookDay(p) \/ DropCode(p)
    \/ \E f \in Phones :
         \/ \E g \in 1..(MaxCodes + 1) : VerifyCode(f, g)
         \/ MinuteLapses(f) \/ HourLapses(f) \/ CodeLapses(f) \/ BarLapses(f)
    \/ DayLapses

SmsSpec == SmsInit /\ [][SmsNext]_smsVars

-----------------------------------------------------------------------------
(* Properties.                                                             *)

\* A code a phone was told of stays the valid one until it is used, lapses or gives
\* way to a newer one: no other request that fails to send takes it along.
DeliveredCodeWorks == \A f \in Phones : delivered[f] # 0 => code[f] = delivered[f]

\* Messages are looked up before and counted after they are sent, and still an
\* address gets no more of them a day than the limit and those then under way.
SentWithinDay == sentToday < DayLimit + Cardinality(Procs)

\* Whatever codes are asked for in between, nobody guesses wrong more often than
\* the limit before the count or the lock lapses.
GuessesBounded == \A f \in Phones : guesses[f] <= AttemptLimit

\* A code that was delivered works, an address gets its messages of a day and no more,
\* and a phone is guessed at as often as the limit says.
CodesHold == DeliveredCodeWorks /\ SentWithinDay /\ GuessesBounded
=============================================================================
