------------------------------- MODULE MCSupport -------------------------------
EXTENDS Services

SomeScores == [t \in Tiers |-> IF t = "hot" THEN <<1, 5>> ELSE <<4, 2>>]
SomeCategories == <<"violence", "hate">>
SomeLatency == [u \in Users |-> <<1, 2, 2>>]
SomeChains == <<<<2, 3>>, <<1>>, <<>>>>

ServiceParts == {"jobs", "transcripts", "failover", "memory", "tools", "policy", "gate", "mark",
                 "canary", "region"}
MCInit == ServicesInit /\ part \in ServiceParts
mcVars == <<serviceVars, part>>
\* The sessions are alike: let the first record be one of the first session.
FirstSession == CHOOSE s \in MemSessions : TRUE
FirstRecordBound == \A w \in written : w.id = 1 => w.session = FirstSession

MCNext ==
    /\ ServicesNext
    /\ UNCHANGED part
    /\ FirstRecordBound'

MCSpec == MCInit /\ [][MCNext]_mcVars /\ ServicesFairness
=============================================================================
