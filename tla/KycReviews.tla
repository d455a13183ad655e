----------------------------- MODULE KycReviews -----------------------------
(***************************************************************************)
(* Identity documents and their review (internal/kyc): a user submits, an  *)
(* admin approves or rejects, and an approval raises the user's KYC level. *)
(* The review is two statements on two tables.                             *)
(***************************************************************************)
EXTENDS Accounts

CONSTANT SubmissionIds  \* numbers, given out in the order of submission

ASSUME SubmissionIdsAssumption == SubmissionIds \subseteq Nat \ {0}

VARIABLES
    submissions,  \* the kyc_submissions table
    everApproved  \* history: the submissions that were approved at some time

kycVars == <<submissions, everApproved>>

NoSubmission == [user |-> Nobody, status |-> "none"]
Submissions(u) == {s \in SubmissionIds : submissions[s].user = u}
FindLatestByUserID(u) ==
    {s \in Submissions(u) : \A r \in Submissions(u) : r <= s}
Review(s) == <<"review", s>>
Submitting(u) == <<"submission", u>>

KycInit ==
    /\ submissions = [s \in SubmissionIds |-> NoSubmission]
    /\ everApproved = {}

Submit(c, u) ==
    /\ Exists(u)
    /\ Begin(c, "submit", "latest", {Submitting(u)}, u, "nothing")
    /\ UNCHANGED <<users, kycVars>>

LookAtLatest(c) ==
    /\ At(c, "submit", "latest")
    /\ IF \E s \in FindLatestByUserID(User(c)) : submissions[s].status = "pending"
       THEN Finish(c) ELSE Goto(c, "create")
    /\ UNCHANGED <<users, kycVars>>

\* The lookup fails, and the call goes on as if there were no submission.
LookupFails(c) ==
    /\ At(c, "submit", "latest")
    /\ "cutoff" \in work /\ faults < MaxFaults
    /\ faults' = faults + 1
    /\ hurt' = hurt \cup calls[c].on
    /\ calls' = [calls EXCEPT ![c].pc = "create"]
    /\ UNCHANGED <<work, users, kycVars>>

CreateSubmission(c, s) ==
    /\ At(c, "submit", "create")
    /\ submissions[s] = NoSubmission
    /\ \A r \in SubmissionIds : r < s => submissions[r] # NoSubmission
    /\ submissions' = [submissions EXCEPT ![s] = [user |-> User(c), status |-> "pending"]]
    /\ Finish(c)
    /\ UNCHANGED <<users, everApproved>>

\* A review does not ask for the status it finds.
Approve(c, s) ==
    /\ submissions[s] # NoSubmission
    /\ Begin(c, "approve", "status", {Review(s)}, submissions[s].user, s)
    /\ UNCHANGED <<users, kycVars>>

MarkApproved(c) ==
    /\ At(c, "approve", "status")
    /\ submissions' = [submissions EXCEPT ![Mem(c)].status = "approved"]
    /\ everApproved' = everApproved \cup {Mem(c)}
    /\ Goto(c, "level")
    /\ UNCHANGED users

UpdateKycLevel(c) ==
    /\ At(c, "approve", "level")
    /\ users' = [users EXCEPT ![User(c)].kyc = 1]
    /\ Finish(c)
    /\ UNCHANGED kycVars

Reject(c, s) ==
    /\ submissions[s] # NoSubmission
    /\ Begin(c, "reject", "status", {Review(s)}, submissions[s].user, s)
    /\ UNCHANGED <<users, kycVars>>

\* A rejection leaves the user's level as it is.
MarkRejected(c) ==
    /\ At(c, "reject", "status")
    /\ submissions' = [submissions EXCEPT ![Mem(c)].status = "rejected"]
    /\ Finish(c)
    /\ UNCHANGED <<users, everApproved>>

KycNext ==
    \E c \in Workers :
        \/ LookAtLatest(c) \/ LookupFails(c) \/ MarkApproved(c)
        \/ UpdateKycLevel(c) \/ MarkRejected(c)
        \/ \E u \in UserIds : Submit(c, u)
        \/ \E s \in SubmissionIds :
              CreateSubmission(c, s) \/ Approve(c, s) \/ Reject(c, s)

-----------------------------------------------------------------------------
KycTypeOK ==
    /\ submissions \in [SubmissionIds -> [user : UserIds \cup {Nobody},
                          status : {"none", "pending", "approved", "rejected"}]]
    /\ everApproved \subseteq SubmissionIds

\* "A pending kyc submission already exists" (kyc/domain.go): a user has one
\* pending submission, when two of them are not made at once and no lookup of
\* the user's latest submission has failed.
OnePending ==
    \A u \in UserIds : Undisturbed(Submitting(u)) =>
        Cardinality({s \in Submissions(u) : submissions[s].status = "pending"}) <= 1

\* The level of a user is what the reviews say: nobody has it without an
\* approval, and an approval whose call has come to its end has given it,
\* whatever else was written to the user's row meanwhile.
LevelIsEarned ==
    \A u \in UserIds :
        /\ users[u].kyc > 0 => everApproved \cap Submissions(u) # {}
        /\ \A s \in everApproved \cap Submissions(u) :
              \/ users[u].kyc > 0
              \/ Review(s) \in hurt
              \/ \E c \in Workers : At(c, "approve", "level") /\ Mem(c) = s

\* Submissions, reviews and levels agree.
ReviewsAgree == OnePending /\ LevelIsEarned
=============================================================================
