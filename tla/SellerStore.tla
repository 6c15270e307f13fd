----------------------------- MODULE SellerStore -----------------------------
(***************************************************************************)
(* The seller workspaces: one JSON profile per seller, an index from       *)
(* handles to sellers, access keys and viewing keys.  Source:              *)
(* lib/server/seller-store.ts, its routes under app/api/sellers and        *)
(* app/api/seller-session, and the functions of the panel that call them.  *)
(*                                                                         *)
(* Nothing here takes a lock.  A request reads a profile, awaits a scan of *)
(* all profiles or the scanner, and writes the whole profile back; each    *)
(* action is the code between two awaits.  `told` is what the seller's     *)
(* page was last answered: the name and key it shows, and the confirmed    *)
(* viewing key.  Names stand for what normalizeDisplayNameForCompare makes *)
(* of them, scan references for the viewing keys they are given for.       *)
(* Payout addresses are left out: they are read and written back with the  *)
(* rest of the profile, and nothing is decided on them.                    *)
(***************************************************************************)
EXTENDS Naturals, FiniteSets

CONSTANTS
    Sellers,      \* seller ids, random in the source
    Handles,      \* shop handles
    Names,        \* public names that sellers choose
    ScanRefs,     \* what the scanner answers for a viewing key
    Requests,     \* slots for requests that are served at the same time
    None,         \* null, or not given
    MaxRequests,  \* bound: requests that change a profile
    MaxCrashes    \* bound: crashes of the server

ASSUME SellerAssumption ==
    /\ MaxRequests \in Nat /\ MaxCrashes \in Nat
    /\ None \notin Sellers \cup Handles \cup Names \cup ScanRefs

VARIABLES
    profiles,     \* [Sellers -> profile, or None]
    handleIndex,  \* [Handles -> seller, or None]
    sessions,     \* sellers whose browser has a session cookie
    told,         \* [Sellers -> what the seller's page was last answered, or None]
    request,      \* [Requests -> what the request has read and does next]
    issued,       \* number of access keys made; the n-th key is n
    begun,        \* number of requests begun
    crashes,
    overlaps,     \* history: {s, t} if requests of s and t overlapped
    disturbed     \* history: sellers with a request that got no answer

vars == <<profiles, handleIndex, sessions, told, request, issued, begun,
          crashes, overlaps, disturbed>>

Profile ==
    [handle : Handles, displayName : Names \cup Handles, accessKey : Nat,
     sellerScanRef : ScanRefs \cup {None}]

\* What a page keeps of the answers it gets.
View == [displayName : Names \cup Handles, accessKey : Nat,
         sellerScanRef : ScanRefs \cup {None}]

ViewOf(p) == [displayName |-> p.displayName, accessKey |-> p.accessKey,
              sellerScanRef |-> p.sellerScanRef]

Idle == [op |-> "none", step |-> "idle", seller |-> None, profile |-> None,
         ufvk |-> None, unread |-> {}]

Request ==
    [op : {"create", "update", "rotate", "ufvk"},
     step : {"list", "scan", "register", "write", "index"},
     seller : Sellers, profile : Profile, ufvk : ScanRefs \cup {None},
     unread : SUBSET Sellers]

ASSUME NothingAssumption == None \notin Profile \cup View

TypeOK ==
    /\ profiles \in [Sellers -> Profile \cup {None}]
    /\ handleIndex \in [Handles -> Sellers \cup {None}]
    /\ sessions \subseteq Sellers
    /\ told \in [Sellers -> View \cup {None}]
    /\ request \in [Requests -> Request \cup {Idle}]
    /\ issued \in Nat /\ begun \in 0..MaxRequests /\ crashes \in 0..MaxCrashes
    /\ overlaps \subseteq SUBSET Sellers
    /\ disturbed \subseteq Sellers

Init ==
    /\ profiles = [s \in Sellers |-> None]
    /\ handleIndex = [h \in Handles |-> None]
    /\ sessions = {}
    /\ told = [s \in Sellers |-> None]
    /\ request = [r \in Requests |-> Idle]
    /\ issued = 0 /\ begun = 0 /\ crashes = 0
    /\ overlaps = {} /\ disturbed = {}

-----------------------------------------------------------------------------
(* Reading. *)

Existing == {s \in Sellers : profiles[s] # None}

Active == {r \in Requests : request[r] # Idle}

\* Mutant of NormalizeDisplayName: a blank name stays blank.
MutNormalizeDisplayName(name, handle) == name

\* normalizeDisplayName: a blank name (None) becomes the handle.
NormalizeDisplayName(name, handle) == IF name = None THEN handle ELSE name

FindSellerIdByHandle(h) == handleIndex[h]

\* A cookie that the server has signed, not cleared and not older than its thirty days.
VerifySellerSessionToken(s) == s \in sessions

\* getSellerFromRequest, requireSellerFromRequest: the cookie names a seller whose
\* profile exists.
RequireSeller(s) == VerifySellerSessionToken(s) /\ s \in Existing

-----------------------------------------------------------------------------
(* Requests begin, and read what they work on. *)

Begin(r, s, fields) ==
    /\ begun < MaxRequests /\ begun' = begun + 1
    /\ request[r] = Idle
    /\ request' = [request EXCEPT ![r] = fields]
    /\ overlaps' = overlaps \cup {{s, request[q].seller} : q \in Active}
    /\ UNCHANGED <<profiles, handleIndex, sessions, told, issued, crashes, disturbed>>

\* Mutant of CreateSellerProfile: the handle is not looked up.
MutCreateSellerProfile(r, s, h, name, ufvk) ==
    /\ s \notin Existing /\ \A q \in Active : request[q].seller # s
    /\ Begin(r, s,
             [op |-> "create", step |-> "list", seller |-> s, ufvk |-> ufvk,
              unread |-> {},
              profile |-> [handle |-> h, displayName |-> NormalizeDisplayName(name, h),
                           accessKey |-> 0, sellerScanRef |-> None]])

\* The handle must be free.  The shop has a viewing key, or
\* (None) a payout address.
CreateSellerProfile(r, s, h, name, ufvk) ==
    /\ s \notin Existing /\ \A q \in Active : request[q].seller # s
    /\ FindSellerIdByHandle(h) = None
    /\ Begin(r, s,
             [op |-> "create", step |-> "list", seller |-> s, ufvk |-> ufvk,
              unread |-> {},
              profile |-> [handle |-> h, displayName |-> NormalizeDisplayName(name, h),
                           accessKey |-> 0, sellerScanRef |-> None]])

\* Mutant of UpdateSellerProfile: the name is not looked up.
MutUpdateSellerProfile(r, s, given, name) ==
    /\ s \in Existing
    /\ LET p == profiles[s] IN
         Begin(r, s, [op |-> "update", seller |-> s, ufvk |-> None, unread |-> {},
                      step |-> "write",
                      profile |-> IF given
                        THEN [p EXCEPT !.displayName = NormalizeDisplayName(name, p.handle)]
                        ELSE p])

\* Another public name, a blank one (the handle), or (`given` false) no name: only a name
\* that changes is looked up.
UpdateSellerProfile(r, s, given, name) ==
    /\ s \in Existing
    /\ LET p    == profiles[s]
           next == NormalizeDisplayName(name, p.handle)
       IN  IF given
             THEN Begin(r, s, [op |-> "update", seller |-> s, ufvk |-> None, unread |-> {},
                               profile |-> [p EXCEPT !.displayName = next],
                               step |-> IF next = p.displayName THEN "write" ELSE "list"])
             ELSE Begin(r, s, [op |-> "update", seller |-> s, ufvk |-> None, unread |-> {},
                               profile |-> p, step |-> "write"])

\* The old key's hash will be replaced by a new one's.
RotateSellerAccessKey(r, s) ==
    /\ s \in Existing
    /\ Begin(r, s, [op |-> "rotate", step |-> "write", seller |-> s, ufvk |-> None,
                    unread |-> {}, profile |-> profiles[s]])

\* The scanner is asked after the profile was read.
RegisterSellerUfvk(r, s, ufvk) ==
    /\ s \in Existing
    /\ Begin(r, s, [op |-> "ufvk", step |-> "register", seller |-> s, ufvk |-> ufvk,
                    unread |-> {}, profile |-> profiles[s]])

-----------------------------------------------------------------------------
(* The routes: the session cookie decides whose profile a request is about. *)

\* PATCH /api/sellers/me
PatchSeller(r, s, given, name) ==
    RequireSeller(s) /\ UpdateSellerProfile(r, s, given, name)

\* POST /api/sellers/me/access-key
PostAccessKey(r, s) == RequireSeller(s) /\ RotateSellerAccessKey(r, s)

\* POST /api/sellers/me/ufvk
PostUfvk(r, s, ufvk) == RequireSeller(s) /\ RegisterSellerUfvk(r, s, ufvk)

-----------------------------------------------------------------------------
(* isDisplayNameAvailable: list the profiles, then read them one by one. *)

\* What follows when these profiles are still to be read.
AfterReading(r, rest) ==
    request' = [request EXCEPT
        ![r].unread = rest,
        ![r].step = IF rest # {} THEN "scan"
                    ELSE IF request[r].op = "create" /\ request[r].ufvk # None
                      THEN "register" ELSE "write"]

ListProfiles(r) ==
    /\ request[r].step = "list"
    /\ AfterReading(r, Existing \ {request[r].seller})
    /\ UNCHANGED <<profiles, handleIndex, sessions, told, issued, begun, crashes,
                   overlaps, disturbed>>

\* A profile with the name ends the request: "That public name is already in use."
ReadProfile(r) ==
    /\ request[r].step = "scan"
    /\ \E s \in request[r].unread :
         IF profiles[s].displayName = request[r].profile.displayName
           THEN request' = [request EXCEPT ![r] = Idle]
           ELSE AfterReading(r, request[r].unread \ {s})
    /\ UNCHANGED <<profiles, handleIndex, sessions, told, issued, begun, crashes,
                   overlaps, disturbed>>

-----------------------------------------------------------------------------
(* The scanner, and the writes. *)

\* The scanner takes the viewing key, or refuses it, or cannot be reached.
ScannerAnswers(r) ==
    /\ request[r].step = "register"
    /\ \/ request' = [request EXCEPT ![r].profile.sellerScanRef = request[r].ufvk,
                                     ![r].step = "write"]
       \/ request' = [request EXCEPT ![r] = Idle]
    /\ UNCHANGED <<profiles, handleIndex, sessions, told, issued, begun, crashes,
                   overlaps, disturbed>>

(* What the page shows after an answer: the new shop and its key, the saved name, the key *)
(* of the callout that is shown once, the confirmed viewing key.                        *)

OnCreateSeller(s, p) == ViewOf(p)

OnSaveSettings(s, p) == [told[s] EXCEPT !.displayName = p.displayName]

OnRegenerateAccessKey(s, p) == [told[s] EXCEPT !.accessKey = p.accessKey]

OnUfvkConfirmed(s, p) == [told[s] EXCEPT !.sellerScanRef = p.sellerScanRef]

\* What the page shows after the answer of a request that wrote p.
Answer(r, p) ==
    LET s == request[r].seller IN
    CASE request[r].op = "create" -> OnCreateSeller(s, p)
      [] request[r].op = "update" -> OnSaveSettings(s, p)
      [] request[r].op = "rotate" -> OnRegenerateAccessKey(s, p)
      [] request[r].op = "ufvk"   -> OnUfvkConfirmed(s, p)

\* The request ends; its answer reaches the page, or is lost.
Finish(r, p) ==
    LET s == request[r].seller IN
    /\ request' = [request EXCEPT ![r] = Idle]
    /\ \/ /\ told' = [told EXCEPT ![s] = Answer(r, p)]
          /\ UNCHANGED disturbed
       \/ /\ disturbed' = disturbed \cup {s}
          /\ UNCHANGED told

\* Mutant of WriteProfile: the old profile is spread over the new key.
MutWriteProfile(r) ==
    LET s     == request[r].seller
        keyed == request[r].op \in {"create", "rotate"}
        p     == [request[r].profile EXCEPT
                    !.accessKey = IF keyed THEN issued + 1 ELSE @]
    IN
    /\ request[r].step = "write"
    /\ profiles' = [profiles EXCEPT
                     ![s] = IF request[r].op = "rotate" THEN request[r].profile ELSE p]
    /\ issued' = IF keyed THEN issued + 1 ELSE issued
    /\ IF request[r].op = "create"
         THEN /\ request' = [request EXCEPT ![r].step = "index", ![r].profile = p]
              /\ UNCHANGED <<told, disturbed>>
         ELSE Finish(r, p)
    /\ UNCHANGED <<handleIndex, sessions, begun, crashes, overlaps>>

\* The whole profile is replaced by the request's copy, with a new key if it makes one.
WriteProfile(r) ==
    LET s     == request[r].seller
        keyed == request[r].op \in {"create", "rotate"}
        p     == [request[r].profile EXCEPT
                    !.accessKey = IF keyed THEN issued + 1 ELSE @]
    IN
    /\ request[r].step = "write"
    /\ profiles' = [profiles EXCEPT ![s] = p]
    /\ issued' = IF keyed THEN issued + 1 ELSE issued
    /\ IF request[r].op = "create"
         THEN /\ request' = [request EXCEPT ![r].step = "index", ![r].profile = p]
              /\ UNCHANGED <<told, disturbed>>
         ELSE Finish(r, p)
    /\ UNCHANGED <<handleIndex, sessions, begun, crashes, overlaps>>

\* createSellerSessionToken: the answer brings the session cookie.
CreateSellerSessionToken(s) == sessions' = sessions \cup {s}

\* POST /api/sellers: the answer, if it arrives, brings the cookie.
PostSellersAnswer(r, s) ==
    /\ Finish(r, request[r].profile)
    /\ IF told'[s] # None THEN CreateSellerSessionToken(s) ELSE UNCHANGED sessions

\* The last step of createSellerProfile.
WriteHandleIndex(r) ==
    LET s == request[r].seller IN
    /\ request[r].step = "index"
    /\ handleIndex' = [handleIndex EXCEPT ![request[r].profile.handle] = s]
    /\ PostSellersAnswer(r, s)
    /\ UNCHANGED <<profiles, issued, begun, crashes, overlaps>>

-----------------------------------------------------------------------------
(* Sessions, and crashes. *)

\* The access key opens the one shop whose profile has its hash.
AuthenticateSeller(key) == {s \in Existing : profiles[s].accessKey = key}

\* The page shows a shop: its handle, name and payout address.
ApplySeller(s) ==
    /\ told' = [told EXCEPT ![s].displayName = profiles[s].displayName]
    /\ UNCHANGED <<profiles, handleIndex, request, issued, begun, crashes,
                   overlaps, disturbed>>

\* POST /api/seller-session
PostSellerSession(s, key) ==
    /\ s \in AuthenticateSeller(key)
    /\ CreateSellerSessionToken(s)

\* The seller logs in with the key that was saved.
OnLoginSeller(s) ==
    /\ s \notin sessions /\ told[s] # None
    /\ PostSellerSession(s, told[s].accessKey)
    /\ ApplySeller(s)

\* GET /api/seller-session answers with the seller, or with null.
GetSellerSession(s) == RequireSeller(s) /\ UNCHANGED sessions

\* When the page is loaded.
LoadSellerSession(s) == GetSellerSession(s) /\ ApplySeller(s)

\* DELETE /api/seller-session: the cookie is cleared, whosever it is.
DeleteSellerSession(s) == sessions' = sessions \ {s}

\* Best effort; or the cookie's thirty days are over.
OnLogout(s) ==
    /\ VerifySellerSessionToken(s)
    /\ DeleteSellerSession(s)
    /\ UNCHANGED <<profiles, handleIndex, told, request, issued, begun, crashes,
                   overlaps, disturbed>>

\* The server dies: no request that is being served goes on or is answered.
Crash ==
    /\ crashes < MaxCrashes /\ Active # {}
    /\ crashes' = crashes + 1
    /\ disturbed' = disturbed \cup {request[r].seller : r \in Active}
    /\ request' = [r \in Requests |-> Idle]
    /\ UNCHANGED <<profiles, handleIndex, sessions, told, issued, begun, overlaps>>

Next ==
    \/ \E r \in Requests, s \in Sellers :
         \/ \E h \in Handles, name \in Names \cup {None}, ufvk \in ScanRefs \cup {None} :
              CreateSellerProfile(r, s, h, name, ufvk)
         \/ \E given \in BOOLEAN, name \in Names \cup {None} :
              PatchSeller(r, s, given, name)
         \/ PostAccessKey(r, s)
         \/ \E ufvk \in ScanRefs : PostUfvk(r, s, ufvk)
    \/ \E r \in Requests :
         \/ ListProfiles(r) \/ ReadProfile(r) \/ ScannerAnswers(r)
         \/ WriteProfile(r) \/ WriteHandleIndex(r)
    \/ \E s \in Sellers : OnLoginSeller(s) \/ LoadSellerSession(s) \/ OnLogout(s)
    \/ Crash

Spec == Init /\ [][Next]_vars

-----------------------------------------------------------------------------
(* Properties. *)

\* Two shops show one public name only if requests of theirs overlapped: the name
\* check of seller-store.ts:229 is beaten by a race and by nothing else.
SameNameMeansOverlap ==
    \A s, t \in Existing :
        s # t /\ profiles[s].displayName = profiles[t].displayName => {s, t} \in overlaps

\* A shop whose creation was answered, and overlapped no other shop's request, is
\* found under its handle, whatever crashes left of other creations.
HandleFindsItsSeller ==
    \A s \in Sellers :
        told[s] # None /\ (\A t \in Sellers \ {s} : {s, t} \notin overlaps) =>
            FindSellerIdByHandle(profiles[s].handle) = s

\* What the page was told is what is stored, when the seller has no request running, none
\* that overlapped another one of the seller's, and none that went unanswered: in
\* particular the key the seller saved opens the shop.
LastAnswerHolds ==
    \A s \in Sellers :
        told[s] # None /\ s \notin disturbed /\ {s} \notin overlaps
          /\ (\A r \in Active : request[r].seller # s) =>
            told[s] = ViewOf(profiles[s])
=============================================================================
