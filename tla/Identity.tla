------------------------------ MODULE Identity ------------------------------
(***************************************************************************)
(* The name of an account that came through GitHub changes to its phone    *)
(* number when the phone is bound (routes/phone.py, bind_phone). The files *)
(* of the account are kept in Redis under its name: an index per name and, *)
(* in the data of each file, who uploaded it (routes/file_upload.py). A    *)
(* binding moves them around the commit of its transaction, and leaves an  *)
(* intent by which a later binding or login finishes or undoes the move.   *)
(*                                                                         *)
(* Between two actions a request awaits Redis or the database. The daily   *)
(* counters move with the index and are not modelled.                      *)
(***************************************************************************)
EXTENDS Requests, FiniteSets

CONSTANTS GithubName, PhoneName, Files

ASSUME IdentityAssumption == GithubName # PhoneName /\ None \notin {GithubName, PhoneName}

Names == {GithubName, PhoneName}

VARIABLES
    name,      \* users.username of the account
    bound,     \* users.phone of the account is set
    guest,     \* another account was registered with the phone, and has its name
    tx,        \* the request whose transaction holds the row of the account
    intent,    \* user_rename_intent of both names, set and deleted together
    owned,     \* file_owner
    uploader,  \* uploaded_by of each file
    unindexed, \* files whose upload has yet to reach the index
    doing,     \* the requests under way
    overlap,   \* history: a recovery and the transaction of a binding overlapped
    strays     \* history: files uploaded under a name already cleaned up

identityVars == <<name, bound, guest, tx, intent, owned, uploader, unindexed, doing, overlap,
                  strays>>
users == <<name, bound, guest>>
files == <<owned, uploader, unindexed>>
history == <<overlap, strays>>

Nothing == [pc |-> "idle", then |-> "idle", src |-> None, dst |-> None]

IdentityTypeOK ==
    /\ name \in Names /\ {bound, guest, intent, overlap} \subseteq BOOLEAN
    /\ tx \in Procs \cup {None} /\ strays \subseteq Files
    /\ owned \in [Names -> SUBSET Files] /\ uploader \in [Files -> Names \cup {None}]
    /\ unindexed \subseteq Files

IdentityInit ==
    /\ name = GithubName /\ bound = FALSE /\ guest = FALSE /\ tx = None /\ intent = FALSE
    /\ owned = [n \in Names |-> {}] /\ uploader = [f \in Files |-> None] /\ unindexed = {}
    /\ doing = [p \in Procs |-> Nothing]
    /\ overlap = FALSE /\ strays = {}

Moves(p, pc) == doing' = [doing EXCEPT ![p].pc = pc]
Ends(p) == doing' = [doing EXCEPT ![p] = Nothing]
MoveFiles(p, src, dst, then) ==
    doing' = [doing EXCEPT ![p] = [pc |-> "migrate", then |-> then, src |-> src, dst |-> dst]]

-----------------------------------------------------------------------------
(* Moving the files of one name to another.                                *)

\* _MIGRATE_IDENTITY_LUA: the index is copied; who uploaded is rewritten on demand.
Migrated(src, dst, withData) ==
    /\ owned' = [owned EXCEPT ![dst] = @ \cup owned[src]]
    /\ uploader' = [f \in Files |-> IF withData /\ f \in owned[src] /\ uploader[f] = src
                                    THEN dst ELSE uploader[f]]

Migrate(p) ==
    /\ doing[p].pc = "migrate"
    /\ Migrated(doing[p].src, doing[p].dst, TRUE)
    /\ Moves(p, "clean")
    /\ UNCHANGED <<users, unindexed, tx, intent, history>>

\* _cleanup_identity_migration
Cleanup(p) ==
    /\ doing[p].pc = "clean"
    /\ owned' = [owned EXCEPT ![doing[p].src] = {}]
    /\ intent' = FALSE
    /\ Moves(p, doing[p].then)
    /\ UNCHANGED <<users, tx, uploader, unindexed, history>>

-----------------------------------------------------------------------------
(* _recover_identity_migration, which bind_phone and phone_login begin with. *)

BindPhone(p) ==
    /\ doing[p].pc = "idle" /\ ~bound
    /\ doing' = [doing EXCEPT ![p] = [Nothing EXCEPT !.pc = "look", !.then = "bind"]]
    /\ UNCHANGED <<users, tx, intent, files, history>>

PhoneLogin(p) ==
    /\ doing[p].pc = "idle"
    /\ doing' = [doing EXCEPT ![p] = [Nothing EXCEPT !.pc = "look", !.then = "enter"]]
    /\ UNCHANGED <<users, tx, intent, files, history>>

LookForIntent(p) ==
    /\ doing[p].pc = "look"
    /\ Moves(p, IF intent THEN "rule" ELSE doing[p].then)
    /\ UNCHANGED <<users, tx, intent, files, history>>

Existing == {name} \cup (IF guest THEN {PhoneName} ELSE {})

\* Fault: an intent is always carried out.
RuleForward(p) == MoveFiles(p, GithubName, PhoneName, doing[p].then)

\* The names in the database rule; two of them are answered with 503.
Ruling(p) ==
    IF Existing = {PhoneName} THEN MoveFiles(p, GithubName, PhoneName, doing[p].then)
    ELSE IF Existing = {GithubName} THEN MoveFiles(p, PhoneName, GithubName, doing[p].then)
    ELSE Ends(p)

Rule(p) ==
    /\ doing[p].pc = "rule"
    /\ Ruling(p)
    /\ overlap' = (overlap \/ tx # None)
    /\ UNCHANGED <<users, tx, intent, files, strays>>

-----------------------------------------------------------------------------
(* _apply_phone_binding and what follows it.                               *)

Recovering(p) == doing[p].pc \in {"migrate", "clean"} /\ doing[p].then # "idle"

\* The UPDATE waits for the row; it finds nothing when the account was renamed
\* meanwhile, and the phone may be another account's.
StartBinding(p) ==
    /\ doing[p].pc = "bind" /\ tx = None
    /\ IF guest \/ bound
       THEN Ends(p) /\ UNCHANGED <<tx, overlap>>
       ELSE /\ tx' = p /\ Moves(p, "mark")
            /\ overlap' = (overlap \/ \E q \in Procs : Recovering(q))
    /\ UNCHANGED <<users, intent, files, strays>>

RollBack(p) == tx' = None /\ Ends(p)

\* _prepare_identity_migration
MarkIntent(p) ==
    /\ doing[p].pc = "mark"
    /\ \/ intent' = TRUE /\ Moves(p, "prepare") /\ UNCHANGED tx
       \/ RollBack(p) /\ UNCHANGED intent
    /\ UNCHANGED <<users, files, history>>

Prepare(p) ==
    /\ doing[p].pc = "prepare"
    /\ \/ Migrated(GithubName, PhoneName, FALSE) /\ Moves(p, "commit") /\ UNCHANGED <<tx, unindexed>>
       \/ RollBack(p) /\ UNCHANGED files
    /\ UNCHANGED <<users, intent, history>>

\* The commit may fail, or succeed without the request learning of it.
Commit(p) ==
    /\ doing[p].pc = "commit" /\ tx' = None
    /\ \/ name' = PhoneName /\ bound' = TRUE /\ MoveFiles(p, GithubName, PhoneName, "idle")
       \/ name' = PhoneName /\ bound' = TRUE /\ Ends(p)
       \/ UNCHANGED <<name, bound>> /\ Ends(p)
    /\ UNCHANGED <<guest, intent, files, history>>

\* phone_login, phone_register: an INSERT of the name waits for the transaction that
\* holds it and finds the winner afterwards.
EnterByPhone(p) ==
    /\ doing[p].pc = "enter" /\ (bound \/ tx = None)
    /\ guest' = (guest \/ ~bound)
    /\ Ends(p)
    /\ UNCHANGED <<name, bound, tx, intent, files, history>>

Crash(p) ==
    /\ doing[p].pc # "idle"
    /\ tx' = (IF tx = p THEN None ELSE tx)
    /\ Ends(p)
    /\ UNCHANGED <<users, intent, files, history>>

-----------------------------------------------------------------------------

\* handle_upload: the user is the one the request began with, whose name may have
\* changed since; the data of the file are written before the index of the name.
Upload(f, n) ==
    /\ uploader[f] = None /\ f \notin unindexed /\ n \in {name, GithubName}
    /\ uploader' = [uploader EXCEPT ![f] = n]
    /\ unindexed' = unindexed \cup {f}
    /\ UNCHANGED <<users, tx, intent, owned, doing, history>>

Index(f) ==
    /\ f \in unindexed
    /\ unindexed' = unindexed \ {f}
    /\ owned' = [owned EXCEPT ![uploader[f]] = @ \cup {f}]
    /\ strays' = IF uploader[f] # name /\ (~intent \/ \E p \in Procs : doing[p].pc = "clean")
                 THEN strays \cup {f} ELSE strays
    /\ UNCHANGED <<users, tx, intent, uploader, doing, overlap>>

\* A day later the files of the time before are gone.
IntentLapses ==
    /\ intent /\ unindexed = {} /\ \A p \in Procs : doing[p] = Nothing
    /\ intent' = FALSE
    /\ owned' = [n \in Names |-> {f \in owned[n] : uploader[f] = name}]
    /\ uploader' = [f \in Files |-> IF uploader[f] = name THEN name ELSE None]
    /\ UNCHANGED <<users, tx, unindexed, doing, history>>

IdentityNext ==
    \/ \E p \in Procs :
         \/ BindPhone(p) \/ PhoneLogin(p) \/ LookForIntent(p) \/ Rule(p)
         \/ Migrate(p) \/ Cleanup(p)
         \/ StartBinding(p) \/ MarkIntent(p) \/ Prepare(p) \/ Commit(p)
         \/ EnterByPhone(p) \/ Crash(p)
    \/ \E f \in Files : Index(f) \/ \E n \in Names : Upload(f, n)
    \/ IntentLapses

IdentitySpec == IdentityInit /\ [][IdentityNext]_identityVars

-----------------------------------------------------------------------------
(* Properties.                                                             *)

Settled == ~intent /\ \A p \in Procs : doing[p].pc \notin {"migrate", "clean"}
FilesAtName == \A f \in {g \in Files : uploader[g] # None} \ (unindexed \cup strays) :
                  uploader[f] = name /\ f \in owned[name]

\* Once no move is pending, the files of the account are under the name it has,
\* wherever a binding was cut short and whoever finished or undid it - as long as no
\* recovery overlapped the transaction of a binding.
FilesFollowAccount == Settled /\ ~overlap => FilesAtName

\* The same, whatever overlaps: a recovery is said to rule by the name that stands in
\* the database in the end.
RuledByFinalName == Settled => FilesAtName
=============================================================================
