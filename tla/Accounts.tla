------------------------------ MODULE Accounts ------------------------------
(***************************************************************************)
(* The accounts: how they come to exist, their usernames, the donations    *)
(* that allow short ones, the LNDhub password and tokens, the whitelist.   *)
(*                                                                         *)
(* An account is created when its key is first used, by any request or by  *)
(* the crediting of a donation, with a SELECT and then an INSERT.  A       *)
(* request awaits the database between its statements, so others run in    *)
(* between.  A statement is one atomic step, and so is a donation from its *)
(* first write to its commit.                                              *)
(*                                                                         *)
(* The database, its unique indexes on the key and the name included, and  *)
(* the signed tokens outlive the program; the whitelist is read when it    *)
(* starts.  Left out: requests that carry no valid signature or token, a   *)
(* wrong password or a malformed name, all of which change nothing.        *)
(***************************************************************************)
EXTENDS Integers, Sequences, FiniteSets

CONSTANTS
    Keys,               \* public keys
    Names,              \* usernames that are made of allowed characters
    Chars,              \* [Names -> Nat]: their lengths
    MaxChars,           \* USERNAME_MAX_CHARS, 20 in the code
    Amounts,            \* donation.amounts, in any order
    RestrictUsername,   \* donation.restrict_username
    Access, Refresh,    \* access_token_expiry and refresh_token_expiry
    Gifts,              \* the amounts of donations
    Workers,            \* request handlers that may run at a time
    MaxClock,           \* bound on the time
    MaxRequests,        \* bound on the requests that are admitted
    MaxDonations,       \* bound on the donations that arrive
    MaxRestarts         \* bound on restarts

ASSUME AccountsAssumption ==
    /\ Chars \in [Names -> Nat] /\ "none" \notin Names
    /\ MaxChars \in Nat
    /\ Amounts \in Seq(Nat)
    /\ RestrictUsername \in BOOLEAN
    /\ Access \in Nat /\ Refresh \in Nat
    /\ Gifts \subseteq Nat \ {0}
    /\ MaxClock \in Nat /\ MaxRequests \in Nat
    /\ MaxDonations \in Nat /\ MaxRestarts \in Nat

VARIABLES
    user,       \* the rows of `users`, a function from a set of keys
    token,      \* [Keys -> Int]: when the last of its tokens expires
    handler,    \* [Workers -> Handler]: the requests under way
    crediting,  \* keys whose donation the task is about to create them for
    owed,       \* [Keys -> Seq(Gifts)]: donations paid, not yet credited
    whitelist,  \* the keys that may use the service, {} for all
    clock,
    requests, arrived, restarts,    \* counters of the bounds
    given,      \* history: what each key has donated
    left        \* history: when a key was last admitted
vars == <<user, token, handler, crediting, owed, whitelist, clock, requests,
          arrived, restarts, given, left>>

User == [username: Names \cup {"none"}, password: BOOLEAN, donate_amount: Nat]

NewUser == [username |-> "none", password |-> FALSE, donate_amount |-> 0]

\* What a request wants of the account: a name, the password set or removed,
\* or (lnurl) only that it exists.
Wants == [kind: {"username"}, username: Names \cup {"none"}]
            \cup [kind: {"lndhub"}, disable: BOOLEAN] \cup [kind: {"lnurl"}]

Idle == [pc |-> "idle"]

\* `seen` is the row as the handler has read or created it.
Handler == {Idle} \cup [pc: {"insert"}, pubkey: Keys, wants: Wants]
            \cup [pc: {"update"}, pubkey: Keys, wants: Wants, seen: User]

----------------------------------------------------------------------------
(* Who may do what.                                                        *)

\* The empty whitelist admits everybody.
Admits(list, k) == list = {} \/ k \in list

check_permission(k) == Admits(whitelist, k)

\* Donation::level, counted from 1: the last of the amounts that is reached,
\* if any is.
Level(i, donated) ==
    /\ donated >= Amounts[i]
    /\ \A j \in DOMAIN Amounts : donated >= Amounts[j] => j <= i

\* get_username_setting: how short a name may be at a level.  Mutant: the
\* level is counted from 1.
MinCharsOffByOne(i) == Len(Amounts) + 1 - i

MinChars(i) == Len(Amounts) + 2 - i

\* What update_username checks, on the row it has read.  Without a level no
\* change is allowed, and no name may be taken away either.
LongEnough(name, n) == name # "none" => Chars[name] >= n

NameAllowed(name, donated) ==
    /\ IF RestrictUsername
       THEN \E i \in DOMAIN Amounts :
                Level(i, donated) /\ LongEnough(name, MinChars(i))
       ELSE LongEnough(name, 2)
    /\ name # "none" => Chars[name] <= MaxChars

\* The unique index on the name, which knows no NULL.  Mutant: a plain index.
NameFreeAlways(name, k) == TRUE

NameFree(name, k) ==
    name # "none" => \A j \in DOMAIN user \ {k} : user[j].username # name

Insert(rows, k, row) ==
    [j \in DOMAIN rows \cup {k} |-> IF j = k THEN row ELSE rows[j]]

----------------------------------------------------------------------------
Init ==
    /\ user = <<>> /\ token = [k \in Keys |-> -1]
    /\ handler = [w \in Workers |-> Idle] /\ crediting = {}
    /\ owed = [k \in Keys |-> <<>>] /\ given = [k \in Keys |-> 0]
    /\ whitelist = {} /\ left = [k \in Keys |-> 0]
    /\ clock = 0 /\ requests = 0 /\ arrived = 0 /\ restarts = 0

rest == <<crediting, owed, whitelist, clock, arrived, restarts, given, left>>

\* A request is admitted and looks for its account: get_or_create_user.
Select(w, k, want) ==
    /\ requests < MaxRequests /\ requests' = requests + 1
    /\ handler[w] = Idle /\ check_permission(k)
    /\ handler' = [handler EXCEPT ![w] =
            IF k \in DOMAIN user
            THEN [pc |-> "update", pubkey |-> k, wants |-> want, seen |-> user[k]]
            ELSE [pc |-> "insert", pubkey |-> k, wants |-> want]]
    /\ UNCHANGED <<user, token, rest>>

\* create_user: the unique index on the key refuses a second row, and the
\* request fails.
CreateUser(w) ==
    LET k == handler[w].pubkey
    IN  /\ handler[w].pc = "insert"
        /\ IF k \in DOMAIN user
           THEN /\ handler' = [handler EXCEPT ![w] = Idle]
                /\ UNCHANGED user
           ELSE /\ user' = Insert(user, k, NewUser)
                /\ handler' = [handler EXCEPT ![w] =
                        [pc |-> "update", pubkey |-> k,
                         wants |-> handler[w].wants, seen |-> NewUser]]
        /\ UNCHANGED <<token, requests, rest>>

Ends(w) ==
    /\ handler' = [handler EXCEPT ![w] = Idle]
    /\ UNCHANGED <<token, requests, rest>>

\* update_username: an UPDATE of this column alone, after checks on the row
\* as it was read.  Mutant: the whole row is saved.
UpdateUsernameSavesRow(w) ==
    LET k    == handler[w].pubkey
        name == handler[w].wants.username
    IN  /\ handler[w].pc = "update" /\ handler[w].wants.kind = "username"
        /\ user' = IF /\ NameAllowed(name, handler[w].seen.donate_amount)
                      /\ NameFree(name, k)
                   THEN [user EXCEPT ![k] = [handler[w].seen EXCEPT
                                                !.username = name]]
                   ELSE user
        /\ Ends(w)

UpdateUsername(w) ==
    LET k    == handler[w].pubkey
        name == handler[w].wants.username
    IN  /\ handler[w].pc = "update" /\ handler[w].wants.kind = "username"
        /\ user' = IF /\ NameAllowed(name, handler[w].seen.donate_amount)
                      /\ NameFree(name, k)
                   THEN [user EXCEPT ![k].username = name] ELSE user
        /\ Ends(w)

\* reset_lndhub: a new random password, or none.
ResetLndhub(w) ==
    LET k == handler[w].pubkey
    IN  /\ handler[w].pc = "update" /\ handler[w].wants.kind = "lndhub"
        /\ user' = [user EXCEPT ![k].password = ~handler[w].wants.disable]
        /\ Ends(w)

\* The callback of lnurl goes on to create its invoice (module Invoices).
LnurlUser(w) ==
    /\ handler[w].pc = "update" /\ handler[w].wants.kind = "lnurl"
    /\ UNCHANGED user /\ Ends(w)

\* auth: by the password or by a token that is still valid, for an account
\* that has a password.  The row is read, and nothing else is awaited before
\* the answer.  Both tokens are of one kind and each is accepted wherever the
\* other is, so the later expiry is what counts.  Mutant: only the password
\* is followed by a check of the whitelist.
TokenValid(k) == token[k] >= clock

Later(a, b) == IF a >= b THEN a ELSE b

Issue(k) ==
    /\ token' = [token EXCEPT ![k] =
                    Later(@, Later(clock + Refresh, clock + Access))]
    /\ UNCHANGED <<user, handler, requests, rest>>

AuthRefreshAlways(k) ==
    /\ k \in DOMAIN user /\ user[k].password
    /\ TokenValid(k) \/ check_permission(k)
    /\ Issue(k)

Auth(k) ==
    /\ k \in DOMAIN user /\ user[k].password
    /\ check_permission(k)
    /\ Issue(k)

----------------------------------------------------------------------------
(* Donations.                                                              *)

\* A donation of the key k is paid at the node.
DonationArrives(k, gift) ==
    /\ arrived < MaxDonations
    /\ arrived' = arrived + 1
    /\ owed' = [owed EXCEPT ![k] = Append(@, gift)]
    /\ UNCHANGED <<user, token, handler, crediting, whitelist, clock,
                   requests, restarts, given, left>>

\* The end of sync_donation: the donor's sum, and the commit.
Credit(k) ==
    LET gift == Head(owed[k])
        row  == IF k \in DOMAIN user THEN user[k] ELSE NewUser
    IN  /\ user' = Insert(user, k, [row EXCEPT !.donate_amount = @ + gift])
        /\ owed' = [owed EXCEPT ![k] = Tail(@)]
        /\ given' = [given EXCEPT ![k] = @ + gift]
        /\ UNCHANGED <<token, handler, whitelist, clock, requests, arrived,
                       restarts, left>>

\* sync_donation looks for the donor's account.
SyncDonation(k) ==
    /\ owed[k] # <<>> /\ crediting = {}
    /\ IF k \in DOMAIN user THEN Credit(k) /\ UNCHANGED crediting
       ELSE /\ crediting' = {k}
            /\ UNCHANGED <<user, token, handler, owed, whitelist, clock,
                           requests, arrived, restarts, given, left>>

\* ... and creates it.  When another request has done so meanwhile, the whole
\* transaction fails and the next round of the task begins again.  Mutant:
\* the task goes on trying to create it.
CreateDonorAgain(k) ==
    /\ k \in crediting /\ k \notin DOMAIN user
    /\ crediting' = {} /\ Credit(k)

CreateDonor(k) ==
    /\ k \in crediting /\ crediting' = {}
    /\ IF k \in DOMAIN user
       THEN UNCHANGED <<user, token, handler, owed, whitelist, clock,
                        requests, arrived, restarts, given, left>>
       ELSE Credit(k)

----------------------------------------------------------------------------
\* Time passes.  The history variable follows the whitelist.
Tick ==
    /\ clock < MaxClock
    /\ clock' = clock + 1
    /\ left' = [k \in Keys |->
                    IF check_permission(k) THEN clock + 1 ELSE left[k]]
    /\ UNCHANGED <<user, token, handler, crediting, owed, whitelist,
                   requests, arrived, restarts, given>>

\* The program stops at any point and starts with another whitelist.
Restart(allowed) ==
    /\ restarts < MaxRestarts
    /\ restarts' = restarts + 1
    /\ whitelist' = allowed
    /\ left' = [k \in Keys |->
                    IF Admits(allowed, k) THEN clock ELSE left[k]]
    /\ handler' = [w \in Workers |-> Idle] /\ crediting' = {}
    /\ UNCHANGED <<user, token, owed, clock, requests, arrived, given>>

Task == \E k \in Keys : SyncDonation(k) \/ CreateDonor(k)

Next ==
    \/ \E w \in Workers :
        \/ \E k \in Keys, want \in Wants : Select(w, k, want)
        \/ CreateUser(w) \/ UpdateUsername(w) \/ ResetLndhub(w) \/ LnurlUser(w)
    \/ \E k \in Keys :
        Auth(k) \/ \E gift \in Gifts : DonationArrives(k, gift)
    \/ Task \/ Tick
    \/ \E allowed \in SUBSET Keys : Restart(allowed)

\* The task is a loop that runs for as long as the program does.
Fairness == WF_vars(Task)

Spec == Init /\ [][Next]_vars /\ Fairness
----------------------------------------------------------------------------
(* Properties.                                                             *)

\* The state has its type, and the indexes hold: one row for a key is in the
\* shape of `user`, one key for a name, to which NIP-05 and LNURL resolve it,
\* is not.
NamesAreUnique ==
    \A j, k \in DOMAIN user :
        user[j].username = user[k].username /\ user[j].username # "none" => j = k

TypeOK ==
    /\ NamesAreUnique
    /\ DOMAIN user \subseteq Keys /\ user \in [DOMAIN user -> User]
    /\ token \in [Keys -> Int] /\ handler \in [Workers -> Handler]
    /\ crediting \subseteq Keys
    /\ owed \in [Keys -> Seq(Gifts)] /\ given \in [Keys -> Nat]
    /\ whitelist \subseteq Keys /\ left \in [Keys -> Nat]
    /\ clock \in Nat /\ requests \in Nat /\ arrived \in Nat
    /\ restarts \in Nat

\* username_chars of /v1/info: the length that the i-th amount allows.
username_chars == [i \in DOMAIN Amounts |-> Len(Amounts) + 2 - i]

\* A name that an account holds is one that /v1/info announces for some amount
\* the account has donated: the checks of update_username, on a row that may
\* be out of date, admit no other.
HeldNamesAreAllowed ==
    RestrictUsername =>
        \A k \in DOMAIN user :
            user[k].username # "none" =>
                \E i \in DOMAIN Amounts :
                    /\ user[k].donate_amount >= Amounts[i]
                    /\ Chars[user[k].username] >= username_chars[i]

\* No request that updates an account it has read before loses a donation
\* that is credited in between, and none is counted twice.
DonatedIsKept ==
    \A k \in Keys :
        given[k] = IF k \in DOMAIN user THEN user[k].donate_amount ELSE 0

\* A key that the whitelist does not admit has no valid token once the longer
\* of the two expiries has passed since it last did: tokens that are refreshed do
\* not extend that.
LockedOut ==
    \A k \in Keys : TokenValid(k) => clock <= left[k] + Later(Refresh, Access)

\* A donation of a key that is new is credited, also when a request creates
\* the account between the task's SELECT and its INSERT.
DonationsAreCredited ==
    \A k \in Keys : owed[k] # <<>> ~> owed[k] = <<>>
=============================================================================
