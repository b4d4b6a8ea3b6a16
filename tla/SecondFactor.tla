---------------------------- MODULE SecondFactor ----------------------------
(* The second factor of one account: how its owner sets it up, confirms, disables
   and renews it, and how logins with the right password ask for it.  Every request
   reads the row of user_two_factors without a lock and writes it later by its id;
   the setup that waits for confirmation is an entry of Redis.  A list of backup
   codes and the secret made with it have a number; a code is one of a list.
   The count of failed codes is left out: it only refuses a login. *)
EXTENDS Naturals

CONSTANTS
    Handlers,   \* requests at once (a bound)
    NoOne,
    Codes,      \* the codes of a list
    Devices,    \* generateDeviceID of the clients
    MaxFactors,    \* rows ever inserted (a bound)
    MaxLists    \* lists ever made (a bound)

Lists == 1 .. MaxLists

VARIABLES
    factor,     \* the row: its id, 0 for none, and its backup codes
    lastFactor,
    setup,      \* the entry 2fa_setup: the number of its secret and list, or 0
    made,       \* how many lists have been made
    trusted,    \* devices whose trust has not expired
    fPc, f,     \* the step of every request and its local variables
    issued      \* history: <<list, id>>, the rows a list was made for or confirmed into

factorVars == <<factor, lastFactor, setup, made, trusted, fPc, f, issued>>

NoRow == [id |-> 0, codes |-> {}]
Idle == [row |-> NoRow, list |-> 0, device |-> NoOne, used |-> {}]
CodesOf(n) == {n} \X Codes

At(p, step) == fPc[p] = step
Goto(p, step) == fPc' = [fPc EXCEPT ![p] = step]
Stop(p) == Goto(p, "idle") /\ f' = [f EXCEPT ![p] = Idle]

Init ==
    /\ factor = NoRow /\ lastFactor = 0 /\ setup = 0 /\ made = 0
    /\ trusted = {} /\ issued = {}
    /\ fPc = [p \in Handlers |-> "idle"] /\ f = [p \in Handlers |-> Idle]

\* WHERE id: the row the request has read, if it is still there.
ByUser(p) == factor.id # 0
ById(p) == factor.id # 0 /\ factor.id = f[p].row.id

-----------------------------------------------------------------------------
SetupTwoFactor(p) ==
    /\ At(p, "idle") /\ factor.id = 0 /\ made < MaxLists
    /\ made' = made + 1
    /\ f' = [f EXCEPT ![p].list = made + 1]
    /\ Goto(p, "store")
    /\ UNCHANGED <<factor, lastFactor, setup, trusted, issued>>

StoreSetup(p) ==
    /\ At(p, "store")
    /\ setup' = f[p].list
    /\ Stop(p)
    /\ UNCHANGED <<factor, lastFactor, made, trusted, issued>>

SetupExpires ==
    /\ setup # 0 /\ setup' = 0
    /\ UNCHANGED <<factor, lastFactor, made, trusted, fPc, f, issued>>

\* The code is one of the secret in the entry.
ConfirmTwoFactor(p) ==
    /\ At(p, "idle") /\ setup # 0
    /\ f' = [f EXCEPT ![p].list = setup]
    /\ Goto(p, "insert")
    /\ UNCHANGED <<factor, lastFactor, setup, made, trusted, issued>>

\* An account has one row: with another there the insert fails (Fail).
InsertFactor(p) ==
    LET n == f[p].list IN
    /\ At(p, "insert") /\ factor.id = 0 /\ lastFactor < MaxFactors
    /\ factor' = [id |-> lastFactor + 1, codes |-> CodesOf(n)]
    /\ lastFactor' = lastFactor + 1
    /\ issued' = issued \union {<<n, lastFactor + 1>>}
    /\ Goto(p, "drop setup")
    /\ UNCHANGED <<setup, made, trusted, f>>

DropSetup(p) ==
    /\ At(p, "drop setup")
    /\ setup' = 0
    /\ Stop(p)
    /\ UNCHANGED <<factor, lastFactor, made, trusted, issued>>

\* The code is one of the row's secret.
DisableTwoFactor(p) ==
    /\ At(p, "idle") /\ factor.id # 0
    /\ f' = [f EXCEPT ![p].row = factor]
    /\ Goto(p, "delete")
    /\ UNCHANGED <<factor, lastFactor, setup, made, trusted, issued>>

DeleteFactor(p) ==
    /\ At(p, "delete")
    /\ factor' = IF ById(p) THEN NoRow ELSE factor
    /\ Stop(p)
    /\ UNCHANGED <<lastFactor, setup, made, trusted, issued>>

RegenerateBackupCodes(p) ==
    /\ At(p, "idle") /\ factor.id # 0 /\ made < MaxLists
    /\ made' = made + 1
    /\ f' = [f EXCEPT ![p].row = factor, ![p].list = made + 1]
    /\ issued' = issued \union {<<made + 1, factor.id>>}
    /\ Goto(p, "replace codes")
    /\ UNCHANGED <<factor, lastFactor, setup, trusted>>

\* The caller is given the new codes, whether or not a row was there to hold them.
ReplaceCodes(p) ==
    /\ At(p, "replace codes")
    /\ factor' = IF ById(p) THEN [factor EXCEPT !.codes = CodesOf(f[p].list)] ELSE factor
    /\ Stop(p)
    /\ UNCHANGED <<lastFactor, setup, made, trusted, issued>>

-----------------------------------------------------------------------------
\* The password was right; without a row the login goes on to its session.
LoginWithEmail(p) ==
    \E d \in Devices :
        /\ At(p, "idle") /\ factor.id # 0
        /\ f' = [f EXCEPT ![p].row = factor, ![p].device = d]
        /\ Goto(p, "device")
        /\ UNCHANGED <<factor, lastFactor, setup, made, trusted, issued>>

\* A trusted device is not asked; of any other, a code of the authenticator or a
\* backup code of the list that was read is taken.
VerifySecondFactor(p) ==
    /\ At(p, "device")
    /\ \/ f[p].device \in trusted /\ Stop(p)
       \/ /\ f[p].device \notin trusted
          /\ \E used \in {{}} \union {{k} : k \in f[p].row.codes} :
                f' = [f EXCEPT ![p].used = used]
          /\ \E next \in {"trust", "record"} : Goto(p, next)
    /\ UNCHANGED <<factor, lastFactor, setup, made, trusted, issued>>

TrustDevice(p) ==
    /\ At(p, "trust")
    /\ trusted' = trusted \union {f[p].device}
    /\ Goto(p, "record")
    /\ UNCHANGED <<factor, lastFactor, setup, made, f, issued>>

\* The list that was read, without the code used; a code of the authenticator
\* leaves the column alone.  A failure here is only logged (Fail).
RecordUse(p) ==
    /\ At(p, "record")
    /\ factor' = IF ById(p) /\ f[p].used # {}
                 THEN [factor EXCEPT !.codes = f[p].row.codes \ f[p].used] ELSE factor
    /\ Stop(p)
    /\ UNCHANGED <<lastFactor, setup, made, trusted, issued>>

TrustExpires(d) ==
    /\ d \in trusted /\ trusted' = trusted \ {d}
    /\ UNCHANGED <<factor, lastFactor, setup, made, fPc, f, issued>>

\* An error, a wrong code, or the end of the process.
Fail(p) ==
    /\ ~At(p, "idle")
    /\ Stop(p)
    /\ UNCHANGED <<factor, lastFactor, setup, made, trusted, issued>>

Next ==
    \/ SetupExpires
    \/ \E d \in Devices : TrustExpires(d)
    \/ \E p \in Handlers :
        \/ SetupTwoFactor(p) \/ StoreSetup(p)
        \/ ConfirmTwoFactor(p) \/ InsertFactor(p) \/ DropSetup(p)
        \/ DisableTwoFactor(p) \/ DeleteFactor(p)
        \/ RegenerateBackupCodes(p) \/ ReplaceCodes(p)
        \/ LoginWithEmail(p) \/ VerifySecondFactor(p) \/ TrustDevice(p) \/ RecordUse(p)
        \/ Fail(p)

Spec == Init /\ [][Next]_factorVars

-----------------------------------------------------------------------------
\* The backup codes that open the account are codes of its present second factor:
\* a login or a renewal that read the row of one that was disabled since does not
\* bring its codes back into the one set up after it.
CodesAreOfTheFactor == \A k \in factor.codes : <<k[1], factor.id>> \in issued
=============================================================================
