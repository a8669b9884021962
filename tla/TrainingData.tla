------------------------------ MODULE TrainingData ------------------------------
(* What may be trained on: the record schema (training/data_engine/schema.py),  *)
(* the intake and the review of records (training/labeling/review.py), and the  *)
(* two scripts that would train, which validate a dataset first                 *)
(* (training/sft/lora_sft.py, training/preference/dpo_lite.py).                  *)
EXTENDS Integers, Sequences, FiniteSets, SequencesExt

CONSTANTS Submissions,  \* raw records: [id, kind, source, status, proof, canTrain, provenance, consent]
          MaxIntake,    \* bound: records the intake has seen
          MaxReview,    \* bound: review actions on one record
          MaxDataset    \* bound: lines of a dataset file

ASSUME TrainingAssumption ==
    Submissions \subseteq [id : STRING, kind : STRING, source : STRING, status : STRING, proof : BOOLEAN,
                           canTrain : BOOLEAN, provenance : BOOLEAN, consent : BOOLEAN]

EligibleConsent == {"granted", "not_applicable", "public_license"}
NoRecord == [id |-> "none", kind |-> "none", source |-> "none", status |-> "pending",
             proof |-> FALSE, canTrain |-> FALSE]
NoItem == [record |-> NoRecord, state |-> "absent", history |-> <<>>]
NotTrained == [outcome |-> "none", kind |-> "none", total |-> 0, eligible |-> {}, refused |-> 0,
               gate |-> FALSE]
SampleIds == {d.id : d \in Submissions}

VARIABLES accepted,  \* CollectionIntake.accepted
          refused,   \* CollectionIntake.rejected
          queue,     \* ReviewWorkflow._items: id -> item
          exported,  \* the last approved_records()
          training   \* the last dry run or run of a script

trainingVars == <<accepted, refused, queue, exported, training>>

TrainingInit ==
    /\ accepted = {}
    /\ refused = {}
    /\ queue = [s \in SampleIds |-> NoItem]
    /\ exported = {}
    /\ training = NotTrained

-----------------------------------------------------------------------------
\* What build_record raises for a raw record.  A ConsentError raised inside the
\* model comes out of pydantic as a ValidationError.
BuildError(d) ==
    IF ~d.provenance THEN "ProvenanceError"
    ELSE IF ~d.consent THEN "ConsentError"
    ELSE IF d.status \in {"granted", "public_license"} /\ ~d.proof THEN "ValidationError"
    ELSE "none"

\* A record whose consent is not eligible loses can_train.
BuildRecord(d) ==
    [id |-> d.id, kind |-> d.kind, source |-> d.source, status |-> d.status, proof |-> d.proof,
     canTrain |-> d.canTrain /\ d.status \in EligibleConsent]

IsTrainingEligible(r) == r.canTrain /\ r.status \in EligibleConsent

\* submit: real material must be eligible; a ValidationError passes unrecorded.
SubmitRecord(d) ==
    LET real == d.source = "real_consented" /\ ~IsTrainingEligible(BuildRecord(d))
    IN /\ Cardinality(accepted) + Cardinality(refused) < MaxIntake
       /\ IF BuildError(d) = "none" /\ ~real
          THEN accepted' = accepted \union {BuildRecord(d)} /\ UNCHANGED refused
          ELSE /\ refused' = IF BuildError(d) = "ValidationError" THEN refused ELSE refused \union {d}
               /\ UNCHANGED accepted
       /\ exported' = {} /\ training' = NotTrained
       /\ UNCHANGED queue

\* add takes any record, but one for each id.
AddToReview(d) ==
    /\ BuildError(d) = "none"
    /\ queue' = IF queue[d.id] # NoItem THEN queue
                ELSE [queue EXCEPT ![d.id] = [record |-> BuildRecord(d), state |-> "pending",
                                              history |-> <<>>]]
    /\ exported' = {} /\ training' = NotTrained
    /\ UNCHANGED <<accepted, refused>>

AllowedTransitions ==
    {<<"pending", "claim", "in_review">>, <<"in_review", "approve", "approved">>,
     <<"in_review", "reject", "rejected">>, <<"in_review", "request_changes", "needs_changes">>,
     <<"needs_changes", "resubmit", "pending">>, <<"needs_changes", "claim", "in_review">>}

ApplyReview(s, action) ==
    /\ Len(queue[s].history) < MaxReview
    /\ \E t \in AllowedTransitions :
          /\ t[1] = queue[s].state /\ t[2] = action
          /\ queue' = [queue EXCEPT ![s].state = t[3], ![s].history = Append(@, action)]
    /\ exported' = {} /\ training' = NotTrained
    /\ UNCHANGED <<accepted, refused>>

ApprovedRecords ==
    /\ exported' = {queue[s].record : s \in {i \in SampleIds :
                       queue[i].state = "approved" /\ IsTrainingEligible(queue[i].record)}}
    /\ training' = NotTrained
    /\ UNCHANGED <<accepted, refused, queue>>

-----------------------------------------------------------------------------
\* _validate_dataset: build every item, then keep the right kind with consent.
ValidateDataset(items, kind) ==
    LET valid == {BuildRecord(d) : d \in {i \in items : BuildError(i) = "none"}}
    IN {r \in valid : r.kind = kind /\ IsTrainingEligible(r)}

\* dry_run writes a manifest; run does the dry run first, then asks the gate, and
\* ends in TrainingUnavailableError even when the gate lets it through.
DryRun(items, kind, gain) ==
    LET eligible == ValidateDataset(items, kind)
    IN [outcome |-> "manifest", kind |-> kind, total |-> Cardinality(items), eligible |-> eligible,
        refused |-> Cardinality({d \in items : BuildError(d) # "none"})
                    + Cardinality({d \in items : BuildError(d) = "none" /\
                                                 BuildRecord(d) \notin eligible}),
        gate |-> gain]

RunTraining(items, kind, gain, dry) ==
    /\ queue = [s \in SampleIds |-> NoItem]  \* the scripts read a file, not the queue
    /\ training' = IF dry THEN DryRun(items, kind, gain)
                   ELSE [DryRun(items, kind, gain) EXCEPT
                            !.outcome = IF gain THEN "TrainingUnavailableError" ELSE "GatingError"]
    /\ exported' = {}
    /\ UNCHANGED <<accepted, refused, queue>>

Datasets == {items \in SUBSET Submissions : IsFiniteSet(items) /\ Cardinality(items) <= MaxDataset}

TrainingNext ==
    \/ \E d \in Submissions : SubmitRecord(d) \/ AddToReview(d)
    \/ \E s \in SampleIds, a \in {"claim", "approve", "reject", "request_changes", "resubmit"} :
          ApplyReview(s, a)
    \/ ApprovedRecords
    \/ \E items \in Datasets, k \in {"hinglish_pair", "preference"}, g, d \in BOOLEAN :
          RunTraining(items, k, g, d)

TrainingSpec == TrainingInit /\ [][TrainingNext]_trainingVars

-----------------------------------------------------------------------------
Consented(r) == /\ r.status \in EligibleConsent
                /\ r.status \in {"granted", "public_license"} => r.proof
                /\ r.canTrain

\* Nothing reaches training on the word of its sender: real material is taken in
\* with proof of consent only, a record is exported when somebody claimed it
\* before the approval and its consent stands, and a script counts every line of
\* its dataset as eligible or as refused, and never runs a blocked adaptation.
TrainingIsConsented ==
    /\ \A r \in accepted : r.source = "real_consented" => Consented(r)
    /\ \A r \in exported : Consented(r) /\ Last(queue[r.id].history) = "approve"
    /\ \A s \in SampleIds : \A i \in DOMAIN queue[s].history :
          queue[s].history[i] \in {"approve", "reject"} =>
             /\ i = Len(queue[s].history)
             /\ i > 1 /\ queue[s].history[i - 1] = "claim"
    /\ \A r \in training.eligible : Consented(r) /\ r.kind = training.kind
    /\ training.total = Cardinality(training.eligible) + training.refused
    /\ training.outcome = "TrainingUnavailableError" => training.gate
=============================================================================
