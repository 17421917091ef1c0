------------------------ MODULE FullStatementProofs -------------------------
(***************************************************************************)
(* What acceptance by FullStatementVerifier means, for statements of any   *)
(* size.  The loops establish the facts in Facts about every proof read so *)
(* far; with them the challenges bind when Finish accepts, so that both    *)
(* arguments are exact, and MemoryArgument applies to every cell.          *)
(***************************************************************************)
EXTENDS FullStatementVerifier, MemoryArgument

\* What may be absorbed
Items ==
    ({"registers"} \X RegisterTimestamps) \cup ({"setup"} \X Programs) \cup ({"memory"} \X MainMemory)
        \cup ({"delegation"} \X Nat) \cup ({"responses"} \X [1 .. RequestsPerCircuit -> Response])

\* An item is among those absorbed.
Holds(absorbed_items, item) == \E k \in 1 .. Len(absorbed_items) : absorbed_items[k] = item

\* The facts about a main circuit: it is one the circuit's verifier accepts, has its
\* number, continues the one before, and has the challenges of all.
MainFact(proofs, i) ==
    /\ main_risc_v_circuit_verifier(proofs[i])
    /\ proofs[i].circuit_sequence = i - 1
    /\ proofs[i].setup_caps = proofs[1].setup_caps
    /\ proofs[i].challenges = proofs[1].challenges
    /\ i = 1 => proofs[i].input_pc = 0
    /\ i > 1 => /\ proofs[i].input_pc = proofs[i - 1].output_pc
                /\ lazy_inits_continue(proofs[i - 1], proofs[i])

MainFacts ==
    \A i \in 1 .. Len(main) : MainFact(main, i) /\ Holds(transcript, <<"memory", main[i].memory>>)

DelegationFacts ==
    \A j \in 1 .. Len(delegations) :
        /\ delegation_circuit_verifier(delegations[j])
        /\ delegations[j].challenges = main[1].challenges
        /\ Holds(transcript, <<"responses", delegations[j].memory>>)

\* How far the verifier is
Progress ==
    /\ at = "registers" => main = <<>> /\ delegations = <<>> /\ transcript = <<>> /\ delegation_type = 0
    /\ at = "main" => /\ num_circuits \in 1 .. MAX_CIRCUITS /\ Len(main) <= num_circuits
                      /\ delegations = <<>>
    /\ at \in {"delegations", "accepted"} => Len(main) >= 1
    /\ at \in {"main", "delegations", "accepted"} => Holds(transcript, <<"registers", registers>>)

\* What Finish has found
Verdict ==
    at = "accepted" =>
        /\ total_delegation_requests < CHARACTERISTICS
        /\ product_is_one(contributions)
        /\ sum_is_zero

Facts ==
    /\ TypeOK
    /\ transcript \in Seq(Items)
    /\ MainFacts /\ DelegationFacts /\ Progress /\ Verdict

----------------------------------------------------------------------------
(* The loops *)

\* What was absorbed stays absorbed.
LEMMA HoldsAppend ==
    ASSUME NEW s \in Seq(Items), NEW x \in Items
    PROVE  /\ Append(s, x) \in Seq(Items)
           /\ \A y : Holds(s, y) => Holds(Append(s, x), y)
           /\ Holds(Append(s, x), x)
<1>1. Append(s, x) \in Seq(Items) /\ Len(Append(s, x)) = Len(s) + 1 /\ Len(s) \in Nat
  OBVIOUS
<1>2. \A k \in 1 .. Len(s) : k \in 1 .. Len(s) + 1 /\ Append(s, x)[k] = s[k]
  OBVIOUS
<1>3. Append(s, x)[Len(s) + 1] = x /\ Len(s) + 1 \in 1 .. Len(s) + 1
  OBVIOUS
<1> QED
  BY <1>1, <1>2, <1>3 DEF Holds

\* panic forgets everything.
LEMMA PanicFacts ==
    ASSUME Facts, panic
    PROVE  Facts'
<1>1. main' = <<>> /\ delegations' = <<>> /\ transcript' = <<>> /\ at' = "rejected"
      /\ registers' = registers /\ num_circuits' = 0 /\ delegation_type' = 0
  BY DEF panic
<1>2. Len(main') = 0 /\ Len(delegations') = 0
  BY <1>1
<1>3. TypeOK'
  BY <1>1, StatementAssumption DEF Facts, TypeOK
<1>4. transcript' \in Seq(Items)
  BY <1>1
<1>5. MainFacts' /\ DelegationFacts'
  BY <1>2 DEF MainFacts, DelegationFacts
<1>6. Progress' /\ Verdict'
  BY <1>1 DEF Progress, Verdict
<1> QED
  BY <1>3, <1>4, <1>5, <1>6 DEF Facts

\* Init establishes the facts.
LEMMA InitFacts == Init => Facts
<1> SUFFICES ASSUME Init PROVE Facts
  OBVIOUS
<1>1. Len(main) = 0 /\ Len(delegations) = 0
  BY DEF Init
<1>2. TypeOK
  BY <1>1, StatementAssumption DEF Init, TypeOK
<1>3. transcript \in Seq(Items)
  BY DEF Init
<1>4. MainFacts /\ DelegationFacts
  BY <1>1 DEF MainFacts, DelegationFacts
<1>5. Progress /\ Verdict
  BY DEF Init, Progress, Verdict
<1> QED
  BY <1>2, <1>3, <1>4, <1>5 DEF Facts

\* Reading the registers preserves Facts.
LEMMA ReadRegistersFacts ==
    ASSUME Facts, ReadRegisters
    PROVE  Facts'
<1>1. /\ at = "registers" /\ at' = "main" /\ num_circuits' \in 1 .. MAX_CIRCUITS
      /\ transcript' = <<<<"registers", registers>>>>
      /\ registers' = registers /\ main' = main /\ delegation_type' = delegation_type
      /\ delegations' = delegations
  BY DEF ReadRegisters
<1>2. main' = <<>> /\ delegations' = <<>> /\ Len(main') = 0 /\ Len(delegations') = 0
  BY <1>1 DEF Facts, Progress
<1>3. <<"registers", registers>> \in Items
  BY DEF Facts, TypeOK, Items
<1>4. transcript' \in Seq(Items) /\ Len(transcript') = 1 /\ transcript'[1] = <<"registers", registers>>
  BY <1>1, <1>3
<1>5. Holds(transcript', <<"registers", registers>>)
  BY <1>4 DEF Holds
<1>6. TypeOK'
  BY <1>1, <1>2 DEF Facts, TypeOK
<1>7. MainFacts' /\ DelegationFacts'
  BY <1>2 DEF MainFacts, DelegationFacts
<1>8. Progress' /\ Verdict'
  BY <1>1, <1>2, <1>5 DEF Progress, Verdict
<1> QED
  BY <1>4, <1>6, <1>7, <1>8 DEF Facts

\* Two items are appended one after the other.
LEMMA AppendTwo ==
    ASSUME NEW s \in Seq(Items), NEW x \in Items, NEW y \in Items
    PROVE  s \o (<<x>> \o <<y>>) = Append(Append(s, x), y) /\ s \o (<<>> \o <<y>>) = Append(s, y)
  OBVIOUS

\* The transcript grows by what VerifyMain absorbs.
LEMMA HoldsMain ==
    ASSUME transcript \in Seq(Items), NEW p \in MainProofType
    PROVE  LET s == transcript \o absorbed(p)
           IN  /\ s \in Seq(Items)
               /\ \A y : Holds(transcript, y) => Holds(s, y)
               /\ Holds(s, <<"memory", p.memory>>)
<1> DEFINE setup == <<"setup", p.setup_caps>>
           memory == <<"memory", p.memory>>
<1>1. setup \in Items /\ memory \in Items
  BY DEF Items, MainProofType
<1>2. CASE main = <<>>
  <2>1. transcript \o absorbed(p) = Append(Append(transcript, setup), memory)
    <3>1. absorbed(p) = (IF main = <<>> THEN <<setup>> ELSE <<>>) \o <<memory>>
      BY DEF absorbed
    <3> HIDE DEF setup, memory
    <3>2. absorbed(p) = <<setup>> \o <<memory>>
      BY <1>2, <3>1
    <3>3. transcript \o (<<setup>> \o <<memory>>) = Append(Append(transcript, setup), memory)
      BY <1>1, AppendTwo, Zenon
    <3> QED
      BY <3>2, <3>3, Zenon
  <2> HIDE DEF setup, memory
  <2>2. Append(transcript, setup) \in Seq(Items) /\ \A y : Holds(transcript, y) => Holds(Append(transcript, setup), y)
    BY <1>1, HoldsAppend
  <2>3. /\ Append(Append(transcript, setup), memory) \in Seq(Items)
        /\ \A y : Holds(Append(transcript, setup), y) => Holds(Append(Append(transcript, setup), memory), y)
        /\ Holds(Append(Append(transcript, setup), memory), memory)
    BY <1>1, <2>2, HoldsAppend
  <2> QED
    BY <2>1, <2>2, <2>3 DEF memory
<1>3. CASE main # <<>>
  <2>1. transcript \o absorbed(p) = Append(transcript, memory)
    BY <1>1, <1>3 DEF absorbed
  <2> HIDE DEF setup, memory
  <2> QED
    BY <1>1, <2>1, HoldsAppend DEF memory
<1> QED
  BY <1>2, <1>3

\* An accepted proof joins the facts about the ones before it.
LEMMA VerifyMainFacts ==
    ASSUME Facts, VerifyMain(MainProofs)
    PROVE  Facts'
<1>1. CASE panic
  BY <1>1, PanicFacts
<1>2. CASE ~panic
  <2>1. PICK p \in MainProofs :
          /\ main_risc_v_circuit_verifier(p)
          /\ sequence_matches(p, Len(main))
          /\ main # <<>> => continues(main[Len(main)], p)
          /\ p.input_pc = expected_input_pc
          /\ main' = Append(main, p)
          /\ transcript' = transcript \o absorbed(p)
          /\ UNCHANGED <<at, registers, num_circuits, delegation_type, delegations>>
    BY <1>2 DEF VerifyMain
  <2>2. at = "main" /\ Len(main) < num_circuits
    BY DEF VerifyMain
  <2> DEFINE n == Len(main)
  <2>3. p \in MainProofType /\ main \in Seq(MainProofType) /\ n \in Nat /\ transcript \in Seq(Items)
    BY StatementAssumption DEF Facts, TypeOK
  <2>4. /\ transcript' \in Seq(Items)
        /\ \A y : Holds(transcript, y) => Holds(transcript', y)
        /\ Holds(transcript', <<"memory", p.memory>>)
    BY <2>1, <2>3, HoldsMain
  <2>5. /\ main' \in Seq(MainProofType) /\ Len(main') = n + 1 /\ main'[n + 1] = p
        /\ \A i \in 1 .. n : main'[i] = main[i]
    BY <2>1, <2>3
  <2>6. num_circuits \in 1 .. MAX_CIRCUITS /\ n + 1 <= num_circuits /\ delegations = <<>>
    BY <2>2, <2>3 DEF Facts, Progress
  <2>7. TypeOK'
    BY <2>1, <2>5, <2>6, StatementAssumption DEF Facts, TypeOK
  <2>8. MainFacts'
    <3>1. ASSUME NEW i \in 1 .. n PROVE MainFact(main', i)
      <4>1. MainFact(main, i)
        BY <3>1 DEF Facts, MainFacts
      <4>2. main'[i] = main[i] /\ main'[1] = main[1] /\ (i > 1 => main'[i - 1] = main[i - 1])
        BY <2>3, <2>5, <3>1
      <4> QED
        BY <4>1, <4>2 DEF MainFact
    <3>2. MainFact(main', n + 1)
      <4>1. main'[n + 1] = p /\ p.circuit_sequence = (n + 1) - 1
        BY <2>1, <2>3, <2>5 DEF sequence_matches
      <4>2. CASE n = 0
        <5>1. main = <<>>
          BY <2>3, <4>2
        <5>2. p.input_pc = 0 /\ main'[1] = p
          BY <2>1, <2>5, <4>2, <5>1 DEF expected_input_pc
        <5> QED
          BY <2>1, <4>1, <4>2, <5>2 DEF MainFact
      <4>3. CASE n > 0
        <5>1. main # <<>> /\ main'[(n + 1) - 1] = main[n] /\ main'[1] = main[1] /\ n \in 1 .. n
          BY <2>3, <2>5, <4>3
        <5>2. main[n].setup_caps = main[1].setup_caps /\ main[n].challenges = main[1].challenges
          BY <5>1 DEF Facts, MainFacts, MainFact
        <5>3. /\ p.setup_caps = main[n].setup_caps /\ p.challenges = main[n].challenges
              /\ lazy_inits_continue(main[n], p) /\ p.input_pc = main[n].output_pc
          BY <2>1, <5>1 DEF continues, expected_input_pc
        <5>4. n + 1 # 1
          BY <2>3, <4>3
        <5> HIDE DEF n
        <5> QED
          BY <2>1, <4>1, <5>1, <5>2, <5>3, <5>4 DEF MainFact
      <4> QED
        BY <2>3, <4>2, <4>3
    <3>3. ASSUME NEW i \in 1 .. n + 1 PROVE Holds(transcript', <<"memory", main'[i].memory>>)
      <4>1. CASE i \in 1 .. n
        BY <2>4, <2>5, <4>1 DEF Facts, MainFacts
      <4>2. CASE i = n + 1
        BY <2>4, <2>5, <4>2
      <4> QED
        BY <2>3, <4>1, <4>2
    <3>4. \A i \in 1 .. n + 1 : i \in 1 .. n \/ i = n + 1
      BY <2>3
    <3> HIDE DEF n
    <3> QED
      BY <2>5, <3>1, <3>2, <3>3, <3>4 DEF MainFacts
  <2>9. DelegationFacts' /\ Verdict'
    <3>1. Len(delegations') = 0 /\ at' = "main"
      BY <2>1, <2>2, <2>6
    <3> QED
      BY <3>1 DEF DelegationFacts, Verdict
  <2>10. Progress'
    <3>1. Holds(transcript', <<"registers", registers>>)
      BY <2>2, <2>4 DEF Facts, Progress
    <3> QED
      BY <2>1, <2>2, <2>5, <2>6, <3>1 DEF Progress
  <2> QED
    BY <2>4, <2>7, <2>8, <2>9, <2>10 DEF Facts
<1> QED
  BY <1>1, <1>2

\* Going on to the next delegation type preserves Facts.
LEMMA NextDelegationTypeFacts ==
    ASSUME Facts, NextDelegationType
    PROVE  Facts'
<1>1. /\ all_verified /\ delegation_type < NumDelegationTypes
      /\ at' = "delegations" /\ delegation_type' = delegation_type + 1
      /\ num_circuits' \in 0 .. MaxDelegationCircuits
      /\ registers' = registers /\ main' = main /\ delegations' = delegations
  BY DEF NextDelegationType
<1>2. at \in {"main", "delegations"} /\ Len(main) >= 1
  BY <1>1 DEF all_verified, Facts, TypeOK, Progress
<1>3. transcript \in Seq(Items) /\ <<"delegation", delegation_type'>> \in Items
  BY <1>1 DEF Facts, TypeOK, Items
<1>4. transcript' \in Seq(Items) /\ \A y : Holds(transcript, y) => Holds(transcript', y)
  <2>1. transcript' = Append(transcript, <<"delegation", delegation_type'>>) \/ transcript' = transcript
    BY DEF NextDelegationType
  <2> QED
    BY <1>3, <2>1, HoldsAppend
<1>5. TypeOK'
  BY <1>1, StatementAssumption DEF Facts, TypeOK
<1>6. MainFacts'
  BY <1>1, <1>4 DEF Facts, MainFacts
<1>7. DelegationFacts'
  BY <1>1, <1>4 DEF Facts, DelegationFacts
<1>8. Progress' /\ Verdict'
  <2>1. Holds(transcript', <<"registers", registers>>)
    BY <1>2, <1>4 DEF Facts, Progress
  <2> QED
    BY <1>1, <1>2, <2>1 DEF Progress, Verdict
<1> QED
  BY <1>4, <1>5, <1>6, <1>7, <1>8 DEF Facts

\* All main circuits have the challenges of proof_output_0, and its setup.
LEMMA ProofOutput0 ==
    ASSUME Facts, Len(main) >= 1
    PROVE  proof_output_0.challenges = main[1].challenges /\ proof_output_0.setup_caps = main[1].setup_caps
<1> DEFINE n == Len(main)
           k == IF n % 2 = 1 THEN n ELSE n - 1
<1>1. n \in Nat /\ n >= 1
  BY DEF Facts, TypeOK
<1>2. n = 1 => n % 2 = 1
  OBVIOUS
<1>3. k \in 1 .. n
  BY <1>1, <1>2
<1>4. proof_output_0 = main[k]
  BY DEF proof_output_0
<1> HIDE DEF k
<1> QED
  BY <1>3, <1>4 DEF Facts, MainFacts, MainFact

\* Verifying the proof of a delegation circuit preserves Facts.
LEMMA VerifyDelegationFacts ==
    ASSUME Facts, VerifyDelegation(DelegationProofs)
    PROVE  Facts'
<1>1. CASE panic
  BY <1>1, PanicFacts
<1>2. CASE ~panic
  <2>1. PICK d \in DelegationProofs :
          /\ delegation_circuit_verifier(d)
          /\ d.delegation_type = delegation_type
          /\ same_challenges(d)
          /\ delegations' = Append(delegations, d)
          /\ transcript' = Append(transcript, <<"responses", d.memory>>)
          /\ UNCHANGED <<at, registers, num_circuits, main, delegation_type>>
    BY <1>2 DEF VerifyDelegation
  <2>2. at = "delegations"
    BY DEF VerifyDelegation
  <2>3. Len(main) >= 1
    BY <2>2 DEF Facts, Progress
  <2> DEFINE n == Len(delegations)
  <2>4. /\ d \in DelegationProofType /\ delegations \in Seq(DelegationProofType) /\ n \in Nat
        /\ transcript \in Seq(Items)
    BY StatementAssumption DEF Facts, TypeOK
  <2>5. d.challenges = main[1].challenges
    BY <2>1, <2>3, ProofOutput0 DEF same_challenges
  <2>6. /\ transcript' \in Seq(Items)
        /\ \A y : Holds(transcript, y) => Holds(transcript', y)
        /\ Holds(transcript', <<"responses", d.memory>>)
    <3>1. <<"responses", d.memory>> \in Items
      BY <2>4 DEF Items, DelegationProofType
    <3> QED
      BY <2>1, <2>4, <3>1, HoldsAppend
  <2>7. /\ delegations' \in Seq(DelegationProofType) /\ Len(delegations') = n + 1 /\ delegations'[n + 1] = d
        /\ \A j \in 1 .. n : delegations'[j] = delegations[j]
    BY <2>1, <2>4
  <2>8. TypeOK'
    BY <2>1, <2>7 DEF Facts, TypeOK
  <2>9. MainFacts'
    BY <2>1, <2>6 DEF Facts, MainFacts
  <2>10. DelegationFacts'
    <3>1. \A j \in 1 .. n + 1 : j \in 1 .. n \/ j = n + 1
      BY <2>4
    <3>2. ASSUME NEW j \in 1 .. n
          PROVE  /\ delegation_circuit_verifier(delegations[j])
                 /\ delegations[j].challenges = main[1].challenges
                 /\ Holds(transcript, <<"responses", delegations[j].memory>>)
      BY DEF Facts, DelegationFacts
    <3> HIDE DEF n
    <3> QED
      BY <2>1, <2>5, <2>6, <2>7, <3>1, <3>2 DEF DelegationFacts
  <2>11. Progress' /\ Verdict'
    <3>1. Holds(transcript', <<"registers", registers>>)
      BY <2>2, <2>6 DEF Facts, Progress
    <3> QED
      BY <2>1, <2>2, <2>3, <3>1 DEF Progress, Verdict
  <2> QED
    BY <2>6, <2>8, <2>9, <2>10, <2>11 DEF Facts
<1> QED
  BY <1>1, <1>2

\* The arguments are about the proofs and the registers only.
LEMMA UnchangedArguments ==
    ASSUME registers' = registers, main' = main, delegations' = delegations,
           product_is_one(contributions), sum_is_zero
    PROVE  product_is_one(contributions)' /\ sum_is_zero'
<1>1. contributions' = contributions
  <2>1. RegisterParts' = RegisterParts /\ InitParts' = InitParts /\ AccessParts' = AccessParts
    BY DEF RegisterParts, InitParts, AccessParts
  <2>2. DelegationParts' = DelegationParts
    BY Zenon DEF DelegationParts, answers
  <2>3. ASSUME NEW x PROVE contribution(x)' = contribution(x)
    BY Zenon DEF contribution
  <2> QED
    BY <2>1, <2>2, <2>3, Zenon DEF contributions
<1>2. product_is_one(contributions')
  BY <1>1
<1>3. RequestTimes' = RequestTimes /\ ResponseTimes' = ResponseTimes
  BY DEF RequestTimes, ResponseTimes
<1>4. ASSUME NEW type, NEW t
      PROVE  requesters(type, t)' = requesters(type, t) /\ responders(type, t)' = responders(type, t)
  BY Zenon DEF requesters, responders
<1>5. sum_is_zero'
  BY <1>3, <1>4 DEF sum_is_zero
<1> QED
  BY <1>2, <1>5 DEF product_is_one

\* When the challenges of proof_output_0 are the ones drawn at the end, then they bind.
LEMMA FinishFacts ==
    ASSUME Facts, Finish
    PROVE  Facts'
<1>1. CASE panic
  BY <1>1, PanicFacts
<1>2. CASE ~panic
  <2>1. /\ total_delegation_requests < CHARACTERISTICS /\ proof_output_0.challenges = "drawn"
        /\ challenges_bind => product_is_one(contributions) /\ sum_is_zero
        /\ at' = "accepted"
        /\ UNCHANGED <<registers, num_circuits, main, delegation_type, delegations, transcript>>
    BY <1>2 DEF Finish
  <2>2. at \in {"main", "delegations"} /\ Len(main) >= 1
    BY DEF Finish, all_verified, Facts, TypeOK, Progress
  <2>3. main[1].challenges = "drawn"
    BY <2>1, <2>2, ProofOutput0
  <2>4. challenges_bind
    <3>1. Absorbed(<<"registers", registers>>)
      BY <2>2 DEF Facts, Progress, Holds, Absorbed
    <3>2. \A i \in 1 .. Len(main) : main[i].challenges = "drawn" /\ Absorbed(<<"memory", main[i].memory>>)
      BY <2>3 DEF Facts, MainFacts, MainFact, Holds, Absorbed
    <3>3. \A j \in 1 .. Len(delegations) :
             delegations[j].challenges = "drawn" /\ Absorbed(<<"responses", delegations[j].memory>>)
      BY <2>3 DEF Facts, DelegationFacts, Holds, Absorbed
    <3> QED
      BY <3>1, <3>2, <3>3 DEF challenges_bind
  <2>5. TypeOK' /\ transcript' \in Seq(Items) /\ MainFacts' /\ DelegationFacts'
    BY <2>1 DEF Facts, TypeOK, MainFacts, DelegationFacts
  <2>6. Progress'
    BY <2>1, <2>2 DEF Facts, Progress
  <2>7. Verdict'
    <3>1. total_delegation_requests' = total_delegation_requests
      BY <2>1 DEF total_delegation_requests
    <3>3. product_is_one(contributions)' /\ sum_is_zero'
      BY <2>1, <2>4, UnchangedArguments
    <3> QED
      BY <2>1, <3>1, <3>3 DEF Verdict
  <2> QED
    BY <2>5, <2>6, <2>7 DEF Facts
<1> QED
  BY <1>1, <1>2

\* The facts hold always.
LEMMA FactsInvariant == Spec => []Facts
<1>1. ASSUME Facts, [Next]_vars PROVE Facts'
  <2>1. CASE UNCHANGED vars
    <3> SUFFICES ASSUME vars' = vars PROVE Facts'
      BY <2>1
    <3>1. /\ at' = at /\ registers' = registers /\ num_circuits' = num_circuits /\ main' = main
          /\ delegation_type' = delegation_type /\ delegations' = delegations /\ transcript' = transcript
      BY DEF vars
    <3>2. CASE at # "accepted"
      <4>1. TypeOK' /\ transcript' \in Seq(Items) /\ MainFacts' /\ DelegationFacts' /\ Progress'
        BY <1>1, <3>1 DEF Facts, TypeOK, MainFacts, DelegationFacts, Progress
      <4> QED
        BY <3>1, <3>2, <4>1 DEF Facts, Verdict
    <3>3. CASE at = "accepted"
      <4>1. TypeOK' /\ transcript' \in Seq(Items) /\ MainFacts' /\ DelegationFacts' /\ Progress'
        BY <1>1, <3>1 DEF Facts, TypeOK, MainFacts, DelegationFacts, Progress
      <4>2. total_delegation_requests < CHARACTERISTICS /\ product_is_one(contributions) /\ sum_is_zero
        BY <1>1, <3>3 DEF Facts, Verdict
      <4>3. Verdict'
        BY <3>1, <4>2, UnchangedArguments DEF Verdict, total_delegation_requests
      <4> QED
        BY <4>1, <4>3 DEF Facts
    <3> QED
      BY <3>2, <3>3
  <2>2. CASE Next
    BY <1>1, <2>2, ReadRegistersFacts, VerifyMainFacts, NextDelegationTypeFacts, VerifyDelegationFacts,
       FinishFacts DEF Next
  <2> QED
    BY <1>1, <2>1, <2>2
<1> QED
  BY <1>1, InitFacts, PTL DEF Spec

----------------------------------------------------------------------------
(* Lazy inits *)

\* The rows of a proof that is well-formed
LEMMA RowTypes ==
    ASSUME NEW p \in MainProofType, NEW c \in Cycles
    PROVE  p.memory.inits[c].address \in Nat /\ p.memory.inits[c].teardown \in Nat
<1>1. p.memory \in MainMemory
  BY DEF MainProofType
<1>2. p.memory.inits \in [Cycles -> [address : Nat, teardown : Nat]]
  BY <1>1 DEF MainMemory
<1> QED
  BY <1>2

\* and what the checks of the loop over the circuits leave of each proof.
LEMMA MainFactOf ==
    ASSUME Facts, NEW i \in 1 .. Len(main)
    PROVE  main[i] \in MainProofType /\ MainFact(main, i) /\ Len(main) \in Nat
<1>1. main \in Seq(MainProofType)
  BY DEF Facts, TypeOK
<1>2. MainFact(main, i)
  BY DEF Facts, MainFacts
<1>3. main[i] \in MainProofType /\ Len(main) \in Nat
  BY <1>1
<1> QED
  BY <1>2, <1>3

\* Below a row that is not padding addresses only grow, within a circuit
LEMMA GrowWithin ==
    ASSUME NEW p \in MainProofType, main_risc_v_circuit_verifier(p),
           NEW c \in Cycles, NEW d \in Cycles, c < d, ~IsPadding(p.memory.inits[c])
    PROVE  p.memory.inits[d].address > p.memory.inits[c].address
<1> DEFINE row(k) == p.memory.inits[k]
           T == {k \in Cycles : c < k /\ ~(row(k).address > row(c).address)}
<1>1. /\ \A k \in Cycles : k \in Nat /\ row(k).address \in Nat /\ row(k).teardown \in Nat
      /\ \A k \in Nat : k + 1 \in Cycles => k \in Cycles
  BY StatementAssumption, RowTypes DEF Cycles
<1>2. \A k \in Cycles : k + 1 \in Cycles => row(k + 1).address > row(k).address \/ IsPadding(row(k))
  BY DEF main_risc_v_circuit_verifier, in_order
<1>3. \A k \in Cycles : IsPadding(row(k)) => row(k).address = 0
  BY DEF IsPadding
<1>4. ~IsPadding(row(c))
  OBVIOUS
<1>5. SUFFICES ASSUME T # {} PROVE FALSE
  OBVIOUS
<1> HIDE DEF row
<1>6. PICK m \in T : \A k \in T : m <= k
  <2>1. T \in SUBSET Nat
    BY <1>1
  <2> HIDE DEF T
  <2> QED
    BY <1>5, <2>1, LeastNatural
<1>7. /\ m \in Cycles /\ c < m /\ ~(row(m).address > row(c).address) /\ m - 1 \in Cycles
      /\ m \in Nat /\ c \in Nat /\ (m - 1) + 1 = m
  BY <1>1, <1>6
<1>8. row(m).address > row(m - 1).address \/ IsPadding(row(m - 1))
  BY <1>2, <1>7
<1>9. CASE m - 1 = c
  BY <1>4, <1>7, <1>8, <1>9
<1>10. CASE m - 1 # c
  <2>1. row(m - 1).address > row(c).address
    BY <1>6, <1>7, <1>10
  <2> QED
    BY <1>1, <1>3, <1>7, <1>8, <2>1
<1> QED
  BY <1>9, <1>10

\* and from one circuit to all that follow.
LEMMA GrowAcross ==
    ASSUME Facts, NEW i \in 1 .. Len(main), NEW j \in 1 .. Len(main), i < j,
           NEW c \in Cycles, NEW d \in Cycles, ~IsPadding(main[i].memory.inits[c])
    PROVE  main[j].memory.inits[d].address > main[i].memory.inits[c].address
<1> DEFINE row(n, k) == main[n].memory.inits[k]
           last == CyclesPerChunk - 1
           A == row(i, c).address
           T == {n \in 1 .. Len(main) : i < n /\ \E k \in Cycles : ~(row(n, k).address > A)}
<1>1. /\ \A n \in 1 .. Len(main) : main[n] \in MainProofType /\ main_risc_v_circuit_verifier(main[n])
      /\ \A n \in 1 .. Len(main) : n > 1 => in_order(row(n - 1, last), row(n, 0))
  BY MainFactOf DEF MainFact, lazy_inits_continue
<1>2. \A n \in 1 .. Len(main) : \A k \in Cycles : row(n, k).address \in Nat /\ row(n, k).teardown \in Nat
  BY <1>1, RowTypes
<1>3. \A n \in 1 .. Len(main) : \A k, l \in Cycles :
         k < l /\ ~IsPadding(row(n, k)) => row(n, l).address > row(n, k).address
  BY <1>1, GrowWithin
<1>4. last \in Cycles /\ 0 \in Cycles /\ (\A k \in Cycles : k = last \/ k < last) /\ (\A k \in Cycles : k = 0 \/ 0 < k)
  BY StatementAssumption DEF Cycles
<1>5. ~IsPadding(row(i, c))
  OBVIOUS
<1>6. \A r : IsPadding(r) => r.address = 0
  BY DEF IsPadding
<1>7. SUFFICES ASSUME T # {} PROVE FALSE
  OBVIOUS
<1> HIDE DEF row
<1>8. PICK m \in T : \A n \in T : m <= n
  <2>1. T \in SUBSET Nat
    OBVIOUS
  <2> HIDE DEF T
  <2> QED
    BY <1>7, <2>1, LeastNatural
<1>9. PICK k \in Cycles : ~(row(m, k).address > A)
  BY <1>8
<1>10. m \in 1 .. Len(main) /\ i < m /\ m - 1 \in 1 .. Len(main) /\ m > 1 /\ (i = m - 1 \/ i < m - 1)
  BY <1>8 DEF Facts, TypeOK
<1>11. row(m - 1, last).address >= A /\ ~IsPadding(row(m - 1, last))
  <2>1. CASE i = m - 1
    <3>1. CASE c = last
      BY <1>2, <1>5, <2>1, <3>1
    <3>2. CASE c < last
      <4>1. row(i, last).address > A
        BY <1>3, <1>4, <1>5, <3>2
      <4> QED
        BY <1>2, <1>4, <1>6, <2>1, <4>1
    <3> QED
      BY <1>4, <3>1, <3>2
  <2>2. CASE i < m - 1
    <3>1. m - 1 \notin T
      BY <1>8, <1>10
    <3>2. row(m - 1, last).address > A
      BY <1>4, <1>10, <2>2, <3>1
    <3>3. A \in Nat /\ row(m - 1, last).address \in Nat
      BY <1>2, <1>4, <1>10
    <3> QED
      BY <1>6, <3>2, <3>3
  <2> QED
    BY <1>10, <2>1, <2>2
<1>12. row(m, 0).address > A
  <2>1. row(m, 0).address > row(m - 1, last).address
    BY <1>1, <1>10, <1>11 DEF in_order
  <2>2. A \in Nat /\ row(m, 0).address \in Nat /\ row(m - 1, last).address \in Nat
    BY <1>2, <1>4, <1>10
  <2> QED
    BY <1>11, <2>1, <2>2
<1>13. CASE k = 0
  BY <1>9, <1>12, <1>13
<1>14. CASE 0 < k
  <2>1. ~IsPadding(row(m, 0))
    BY <1>2, <1>4, <1>6, <1>12
  <2>2. row(m, k).address > row(m, 0).address
    BY <1>3, <1>4, <1>10, <1>14, <2>1
  <2> QED
    BY <1>2, <1>4, <1>9, <1>10, <1>12, <2>2
<1> QED
  BY <1>4, <1>13, <1>14

\* No address is initialised twice, whatever proofs were read.
LEMMA RowsOnce ==
    ASSUME Facts, NEW i \in 1 .. Len(main), NEW j \in 1 .. Len(main), NEW c \in Cycles, NEW d \in Cycles,
           main[i].memory.inits[c].address = main[j].memory.inits[d].address,
           ~IsPadding(main[i].memory.inits[c]), ~IsPadding(main[j].memory.inits[d])
    PROVE  i = j /\ c = d
<1>1. /\ \A n \in 1 .. Len(main) : main[n] \in MainProofType /\ main_risc_v_circuit_verifier(main[n])
      /\ main[i].memory.inits[c].address \in Nat
  BY MainFactOf, RowTypes DEF MainFact
<1>2. ASSUME i < j PROVE FALSE
  <2>1. main[j].memory.inits[d].address > main[i].memory.inits[c].address
    BY <1>2, GrowAcross
  <2> QED
    BY <1>1, <2>1
<1>3. ASSUME j < i PROVE FALSE
  <2>1. main[i].memory.inits[c].address > main[j].memory.inits[d].address
    BY <1>3, GrowAcross
  <2> QED
    BY <1>1, <2>1
<1>4. i = j
  BY <1>2, <1>3
<1>5. ~(c < d)
  BY <1>1, <1>4, GrowWithin
<1>6. ~(d < c)
  BY <1>1, <1>4, GrowWithin
<1> QED
  BY <1>4, <1>5, <1>6, StatementAssumption DEF Cycles

\* Theorem: an accepted statement initialises no address twice.
THEOREM AddressesInitialisedOnce == Spec => []InitsOnce
<1>1. Facts => InitsOnce
  BY RowsOnce DEF InitsOnce
<1> QED
  BY <1>1, FactsInvariant, PTL

----------------------------------------------------------------------------
(* Memory *)

Parts == RegisterParts \cup InitParts \cup AccessParts \cup DelegationParts
OfCell(cell) == {x \in Parts : contribution(x).cell = cell}
InitsOfCell(cell) == {x \in OfCell(cell) : x \in RegisterParts \cup InitParts}
ReadOf(X) == [x \in X |-> contribution(x).read]
WriteOf(X) == [x \in X |-> contribution(x).write]

\* Products of finite sets are finite.
LEMMA FiniteProduct ==
    ASSUME NEW A, NEW B, NEW C, NEW D, IsFiniteSet(A), IsFiniteSet(B), IsFiniteSet(C), IsFiniteSet(D)
    PROVE  IsFiniteSet(A \X B \X C \X D)
<1> DEFINE S == (A \X B) \X (C \X D)
           T == A \X B \X C \X D
           f == [p \in S |-> <<p[1][1], p[1][2], p[2][1], p[2][2]>>]
<1>1. IsFiniteSet(S)
  BY FS_Product
<1>2. f \in [S -> T]
  OBVIOUS
<1>3. ASSUME NEW t \in T PROVE \E p \in S : f[p] = t
  <2>1. t = <<t[1], t[2], t[3], t[4]>> /\ t[1] \in A /\ t[2] \in B /\ t[3] \in C /\ t[4] \in D
    OBVIOUS
  <2>2. <<<<t[1], t[2]>>, <<t[3], t[4]>>>> \in S
    BY <2>1
  <2>3. f[<<<<t[1], t[2]>>, <<t[3], t[4]>>>>] = t
    BY <2>1, <2>2
  <2> QED
    BY <2>2, <2>3
<1>4. f \in Surjection(S, T)
  <2> HIDE DEF S, T, f
  <2> QED
    BY <1>2, <1>3 DEF Surjection
<1> HIDE DEF S, T, f
<1>5. IsFiniteSet(T)
  BY <1>1, <1>4, FS_Surjection
<1> QED
  BY <1>5 DEF T

\* Finitely many parts of the proofs take part in the memory argument.
LEMMA PartsFinite ==
    ASSUME Facts
    PROVE  IsFiniteSet(Parts)
<1>1. /\ Len(main) \in Nat /\ Len(delegations) \in Nat /\ Registers \in Nat /\ CyclesPerChunk \in Nat
      /\ AccessesPerCycle \in Nat /\ RequestsPerCircuit \in Nat /\ DelegationAccesses \in Nat
  BY StatementAssumption DEF Facts, TypeOK
<1>2. /\ IsFiniteSet(0 .. Registers - 1) /\ IsFiniteSet(1 .. Len(main)) /\ IsFiniteSet(Cycles)
      /\ IsFiniteSet(0 .. AccessesPerCycle - 1) /\ IsFiniteSet(1 .. Len(delegations))
      /\ IsFiniteSet(1 .. RequestsPerCircuit) /\ IsFiniteSet(1 .. DelegationAccesses)
  <2>1. \A a, b \in Int : IsFiniteSet(a .. b)
    BY FS_Interval
  <2>2. Registers - 1 \in Int /\ CyclesPerChunk - 1 \in Int /\ AccessesPerCycle - 1 \in Int
    BY <1>1
  <2> QED
    BY <1>1, <2>1, <2>2 DEF Cycles
<1>3. \A x : IsFiniteSet({x})
  BY FS_Singleton
<1>4. IsFiniteSet(RegisterParts)
  BY <1>2, <1>3, FiniteProduct DEF RegisterParts
<1>5. IsFiniteSet(InitParts)
  BY <1>2, <1>3, FiniteProduct DEF InitParts
<1>6. IsFiniteSet(AccessParts)
  BY <1>2, <1>3, FiniteProduct DEF AccessParts
<1>7. IsFiniteSet({"delegation"} \X (1 .. Len(delegations)) \X (1 .. RequestsPerCircuit) \X (1 .. DelegationAccesses))
  BY <1>2, <1>3, FiniteProduct
<1>8. IsFiniteSet(DelegationParts)
  <2>1. DelegationParts \in SUBSET ({"delegation"} \X (1 .. Len(delegations)) \X (1 .. RequestsPerCircuit)
                                     \X (1 .. DelegationAccesses))
    BY DEF DelegationParts
  <2> QED
    BY <1>7, <2>1, FS_Subset
<1> QED
  <2>1. IsFiniteSet(RegisterParts \cup InitParts)
    BY <1>4, <1>5, FS_Union
  <2>2. IsFiniteSet(AccessParts \cup DelegationParts)
    BY <1>6, <1>8, FS_Union
  <2>3. Parts = (RegisterParts \cup InitParts) \cup (AccessParts \cup DelegationParts)
    BY DEF Parts
  <2> QED
    BY <2>1, <2>2, <2>3, FS_Union

\* Timestamps are natural numbers, and of a cycle and an access only.
LEMMA TimeType ==
    ASSUME NEW i \in Nat, NEW c \in Cycles, NEW k \in 0 .. AccessesPerCycle
    PROVE  Time(i, c, k) \in Nat /\ Time(i, c, k) > 0
<1>1. CyclesPerChunk \in Nat /\ AccessesPerCycle \in Nat /\ c \in Nat /\ k \in Nat
  BY StatementAssumption DEF Cycles
<1>2. i * (CyclesPerChunk + 1) \in Nat
  BY <1>1
<1>3. i * (CyclesPerChunk + 1) + c + 1 \in Nat \ {0} /\ AccessesPerCycle + 1 \in Nat \ {0}
  BY <1>1, <1>2
<1>4. \A a, b \in Nat \ {0} : a * b \in Nat \ {0}
  OBVIOUS
<1>5. (AccessesPerCycle + 1) * (i * (CyclesPerChunk + 1) + c + 1) \in Nat \ {0}
  BY <1>3, <1>4
<1> QED
  BY <1>1, <1>5 DEF Time, TIMESTAMP_STEP

\* What each kind of part reads and writes: registers
LEMMA RegisterContribution ==
    ASSUME Facts, NEW x \in RegisterParts
    PROVE  /\ x = <<"register", x[2], 0, 0>> /\ x[2] \in 0 .. Registers - 1
           /\ contribution(x) = [cell |-> Reg(x[2]), read |-> registers[x[2]], write |-> 0]
           /\ registers[x[2]] \in Nat
<1>1. x = <<"register", x[2], 0, 0>> /\ x[1] = "register" /\ x[2] \in 0 .. Registers - 1
  BY DEF RegisterParts
<1>2. registers \in [0 .. Registers - 1 -> Nat]
  BY StatementAssumption DEF Facts, TypeOK
<1> QED
  BY <1>1, <1>2 DEF contribution

\* rows of lazy inits
LEMMA InitContribution ==
    ASSUME Facts, NEW x \in InitParts
    PROVE  /\ x = <<"init", x[2], x[3], 0>> /\ x[2] \in 1 .. Len(main) /\ x[3] \in Cycles
           /\ contribution(x).cell = Ram(main[x[2]].memory.inits[x[3]].address)
           /\ contribution(x).read = main[x[2]].memory.inits[x[3]].teardown
           /\ contribution(x).write = 0
           /\ main[x[2]].memory.inits[x[3]].teardown \in Nat
<1>1. x = <<"init", x[2], x[3], 0>> /\ x[1] = "init" /\ x[2] \in 1 .. Len(main) /\ x[3] \in Cycles
  BY DEF InitParts
<1>2. main[x[2]].memory.inits[x[3]].teardown \in Nat
  BY <1>1, MainFactOf, RowTypes
<1> QED
  BY <1>1, <1>2 DEF contribution

\* accesses of a cycle, which are proven to read from before they write
LEMMA AccessContribution ==
    ASSUME Facts, NEW x \in AccessParts
    PROVE  /\ contribution(x).read \in Nat /\ contribution(x).write \in Nat
           /\ contribution(x).read < contribution(x).write
           /\ executed_at(x) = contribution(x).write
<1>1. /\ x[1] = "access" /\ x[2] \in 1 .. Len(main) /\ x[3] \in Cycles /\ x[4] \in 0 .. AccessesPerCycle - 1
      /\ <<x[3], x[4]>> \in Slots
  BY DEF AccessParts, Slots
<1> DEFINE a == main[x[2]].memory.accesses[<<x[3], x[4]>>]
<1>2. /\ contribution(x).cell = a.cell /\ contribution(x).read = a.read
      /\ contribution(x).write = Time(main[x[2]].circuit_sequence, x[3], x[4])
  BY <1>1 DEF contribution
<1>3. main[x[2]] \in MainProofType /\ MainFact(main, x[2]) /\ Len(main) \in Nat
  BY <1>1, MainFactOf
<1>4. a.read \in Nat
  <2>1. main[x[2]].memory \in MainMemory
    BY <1>3 DEF MainProofType
  <2>2. main[x[2]].memory.accesses \in [Slots -> [cell : Cells, read : Nat]]
    BY <2>1 DEF MainMemory
  <2> QED
    BY <1>1, <2>2
<1>5. a.read < Time(main[x[2]].circuit_sequence, <<x[3], x[4]>>[1], <<x[3], x[4]>>[2])
  BY <1>1, <1>3 DEF MainFact, main_risc_v_circuit_verifier
<1>6. main[x[2]].circuit_sequence = x[2] - 1 /\ x[2] - 1 \in Nat
  BY <1>1, <1>3 DEF MainFact
<1>7. Time(x[2] - 1, x[3], x[4]) \in Nat
  <2>1. x[4] \in 0 .. AccessesPerCycle
    BY <1>1, StatementAssumption
  <2> QED
    BY <1>1, <1>6, <2>1, TimeType
<1> HIDE DEF a
<1> QED
  BY <1>1, <1>2, <1>4, <1>5, <1>6, <1>7 DEF executed_at

\* and those of a delegation.
LEMMA DelegationContribution ==
    ASSUME Facts, NEW x \in DelegationParts
    PROVE  /\ contribution(x).read \in Nat /\ contribution(x).write \in Nat
           /\ contribution(x).read < contribution(x).write
           /\ executed_at(x) = contribution(x).write
<1> DEFINE d == delegations[x[2]]
           r == d.memory[x[3]]
<1>1. /\ x[1] = "delegation" /\ x[2] \in 1 .. Len(delegations) /\ x[3] \in 1 .. RequestsPerCircuit
      /\ x[4] \in Nat \ {0} /\ x[4] <= Len(r.accesses) /\ r.timestamp > 0
  BY DEF DelegationParts, answers
<1>2. d \in DelegationProofType /\ delegation_circuit_verifier(d)
  <2>1. delegations \in Seq(DelegationProofType)
    BY DEF Facts, TypeOK
  <2>2. delegations[x[2]] \in DelegationProofType
    BY <1>1, <2>1
  <2> QED
    BY <1>1, <2>2 DEF Facts, DelegationFacts
<1>3. r \in Response
  BY <1>1, <1>2 DEF DelegationProofType
<1>4. r.timestamp \in Nat /\ r.accesses \in Seq([cell : Cells, read : Nat])
  BY <1>3 DEF Response
<1>5. x[4] \in DOMAIN r.accesses /\ r.accesses[x[4]] \in [cell : Cells, read : Nat]
  <2> DEFINE Access == [cell : Cells, read : Nat]
  <2> HIDE DEF Access
  <2>1. \A s \in Seq(Access), k \in Nat \ {0} : k <= Len(s) => k \in DOMAIN s /\ s[k] \in Access
    OBVIOUS
  <2> QED
    BY <1>1, <1>4, <2>1 DEF Access
<1>6. r.accesses[x[4]].read \in Nat /\ r.accesses[x[4]].read < r.timestamp
  BY <1>1, <1>2, <1>5 DEF delegation_circuit_verifier
<1>7. contribution(x).read = r.accesses[x[4]].read /\ contribution(x).write = r.timestamp
  BY <1>1 DEF contribution
<1> HIDE DEF r, d
<1> QED
  BY <1>1, <1>4, <1>6, <1>7 DEF executed_at

\* A cell is torn down by one part at most.
LEMMA InitsUnique ==
    ASSUME Facts, NEW cell, NEW x \in InitsOfCell(cell), NEW y \in InitsOfCell(cell),
           contribution(x).read > 0, contribution(y).read > 0
    PROVE  x = y
<1>1. /\ x \in RegisterParts \cup InitParts /\ y \in RegisterParts \cup InitParts
      /\ contribution(x).cell = contribution(y).cell
  BY DEF InitsOfCell, OfCell
<1>2. \A i, a : Reg(i) # Ram(a)
  BY DEF Reg, Ram
<1>3. \A i, j : (Reg(i) = Reg(j) => i = j) /\ (Ram(i) = Ram(j) => i = j)
  BY DEF Reg, Ram
<1>4. CASE x \in RegisterParts /\ y \in RegisterParts
  <2>1. contribution(x).cell = Reg(x[2]) /\ contribution(y).cell = Reg(y[2])
    BY <1>4, RegisterContribution
  <2>2. x[2] = y[2]
    BY <1>1, <1>3, <2>1
  <2> QED
    BY <1>4, <2>2, RegisterContribution
<1>5. CASE x \in InitParts /\ y \in InitParts
  <2> DEFINE rx == main[x[2]].memory.inits[x[3]]
             ry == main[y[2]].memory.inits[y[3]]
  <2>1. /\ contribution(x).cell = Ram(rx.address) /\ contribution(y).cell = Ram(ry.address)
        /\ contribution(x).read = rx.teardown /\ contribution(y).read = ry.teardown
        /\ x = <<"init", x[2], x[3], 0>> /\ y = <<"init", y[2], y[3], 0>>
        /\ x[2] \in 1 .. Len(main) /\ x[3] \in Cycles /\ y[2] \in 1 .. Len(main) /\ y[3] \in Cycles
        /\ rx.teardown \in Nat /\ ry.teardown \in Nat
    BY <1>5, InitContribution
  <2>2. rx.address = ry.address
    BY <1>1, <1>3, <2>1
  <2>3. ~IsPadding(rx) /\ ~IsPadding(ry)
    <3>1. rx.teardown # 0 /\ ry.teardown # 0
      <4> HIDE DEF rx, ry
      <4> QED
        BY <2>1
    <3> QED
      BY <3>1 DEF IsPadding
  <2>4. x[2] = y[2] /\ x[3] = y[3]
    <3>1. ASSUME NEW i \in 1 .. Len(main), NEW j \in 1 .. Len(main), NEW c \in Cycles, NEW d \in Cycles,
                 i = x[2], j = y[2], c = x[3], d = y[3]
          PROVE  i = j /\ c = d
      <4>1. main[i].memory.inits[c] = rx /\ main[j].memory.inits[d] = ry
        BY <3>1
      <4>2. /\ main[i].memory.inits[c].address = main[j].memory.inits[d].address
            /\ ~IsPadding(main[i].memory.inits[c]) /\ ~IsPadding(main[j].memory.inits[d])
        BY <2>2, <2>3, <4>1
      <4> QED
        BY <4>2, RowsOnce
    <3>2. x[2] \in 1 .. Len(main) /\ x[3] \in Cycles /\ y[2] \in 1 .. Len(main) /\ y[3] \in Cycles
      BY <2>1
    <3> QED
      BY <3>1, <3>2, Zenon
  <2> QED
    BY <2>1, <2>4
<1>6. CASE x \in RegisterParts /\ y \in InitParts
  <2>1. contribution(x).cell = Reg(x[2])
    BY <1>6, RegisterContribution
  <2>2. contribution(y).cell = Ram(main[y[2]].memory.inits[y[3]].address)
    BY <1>6, InitContribution
  <2> QED
    BY <1>1, <1>2, <2>1, <2>2
<1>7. CASE x \in InitParts /\ y \in RegisterParts
  <2>1. contribution(y).cell = Reg(y[2])
    BY <1>7, RegisterContribution
  <2>2. contribution(x).cell = Ram(main[x[2]].memory.inits[x[3]].address)
    BY <1>7, InitContribution
  <2> QED
    BY <1>1, <1>2, <2>1, <2>2
<1> QED
  BY <1>1, <1>4, <1>5, <1>6, <1>7

\* Every cell is balanced, and its parts are those of a history: the premises of
\* SingleHistory.
LEMMA CellBalanced ==
    ASSUME Facts, at = "accepted", NEW cell
    PROVE  Balanced(OfCell(cell), ReadOf(OfCell(cell)), WriteOf(OfCell(cell)))
<1> DEFINE X == OfCell(cell)
           Reads(t) == {y \in Parts : contribution(y).cell = cell /\ contribution(y).read = t}
           Writes(t) == {y \in Parts : contribution(y).cell = cell /\ contribution(y).write = t}
<1>1. DOMAIN contributions = Parts /\ \A y \in Parts : contributions[y] = contribution(y)
  BY DEF contributions, Parts
<1>2. product_is_one(contributions)
  BY DEF Facts, Verdict
<1>3. ASSUME NEW x \in X, NEW t \in {contribution(x).read, contribution(x).write}
      PROVE  Cardinality(Reads(t)) = Cardinality(Writes(t))
  <2>1. x \in Parts /\ contribution(x).cell = cell
    BY DEF OfCell
  <2>2. Cardinality({y \in DOMAIN contributions : contributions[y].cell = contributions[x].cell /\ contributions[y].read = t})
          = Cardinality({y \in DOMAIN contributions : contributions[y].cell = contributions[x].cell /\ contributions[y].write = t})
    <3>1. x \in DOMAIN contributions /\ t \in {contributions[x].read, contributions[x].write}
      BY <1>1, <2>1
    <3> QED
      BY <1>2, <3>1, Zenon DEF product_is_one
  <2>3. Reads(t) = {y \in DOMAIN contributions : contributions[y].cell = contributions[x].cell /\ contributions[y].read = t}
    BY <1>1, <2>1
  <2>4. Writes(t) = {y \in DOMAIN contributions : contributions[y].cell = contributions[x].cell /\ contributions[y].write = t}
    BY <1>1, <2>1
  <2> QED
    BY <2>2, <2>3, <2>4
<1>4. ASSUME NEW t \in Nat PROVE Cardinality(Reads(t)) = Cardinality(Writes(t))
  <2>1. CASE \E x \in X : t \in {contribution(x).read, contribution(x).write}
    BY <1>3, <2>1
  <2>2. CASE \A x \in X : t \notin {contribution(x).read, contribution(x).write}
    <3>1. Reads(t) = {} /\ Writes(t) = {}
      BY <2>2 DEF OfCell
    <3> QED
      BY <3>1
  <2> QED
    BY <2>1, <2>2
<1>5. \A t : At(X, ReadOf(X), t) = Reads(t) /\ At(X, WriteOf(X), t) = Writes(t)
  BY DEF At, ReadOf, WriteOf, OfCell
<1> HIDE DEF X, Reads, Writes
<1>6. \A t \in Nat : Cardinality(At(X, ReadOf(X), t)) = Cardinality(At(X, WriteOf(X), t))
  BY <1>4, <1>5
<1> QED
  BY <1>6 DEF Balanced, X

\* The parts of one cell satisfy what SingleHistory assumes of a cell's accesses.
LEMMA CellHistory ==
    ASSUME Facts, NEW cell
    PROVE  LET X == OfCell(cell)
           IN  /\ IsFiniteSet(X) /\ ReadOf(X) \in [X -> Nat] /\ WriteOf(X) \in [X -> Nat]
               /\ InitsOf(InitsOfCell(cell), X, ReadOf(X), WriteOf(X))
               /\ \A x, y \in InitsOfCell(cell) : ReadOf(X)[x] > 0 /\ ReadOf(X)[y] > 0 => x = y
               /\ X \ InitsOfCell(cell) = X \cap (AccessParts \cup DelegationParts)
<1> DEFINE X == OfCell(cell)
           I == InitsOfCell(cell)
<1>1. IsFiniteSet(X)
  <2>1. X \in SUBSET Parts
    BY DEF OfCell
  <2> QED
    BY <2>1, PartsFinite, FS_Subset
<1>2. \A x \in RegisterParts \cup InitParts : contribution(x).read \in Nat /\ contribution(x).write = 0
  <2>1. \A x \in RegisterParts : contribution(x).read \in Nat /\ contribution(x).write = 0
    BY RegisterContribution
  <2>2. \A x \in InitParts : contribution(x).read \in Nat /\ contribution(x).write = 0
    BY InitContribution
  <2> QED
    BY <2>1, <2>2
<1>3. \A x \in AccessParts \cup DelegationParts :
         /\ contribution(x).read \in Nat /\ contribution(x).write \in Nat
         /\ contribution(x).read < contribution(x).write
  BY AccessContribution, DelegationContribution
<1>4. /\ \A x \in X : x \in RegisterParts \cup InitParts \/ x \in AccessParts \cup DelegationParts
      /\ \A x \in X : x \in I <=> x \in RegisterParts \cup InitParts
      /\ I \subseteq X
  BY DEF OfCell, InitsOfCell, Parts
<1>5. \A x \in AccessParts \cup DelegationParts : x \notin RegisterParts \cup InitParts
  BY DEF RegisterParts, InitParts, AccessParts, DelegationParts
<1>6. \A x, y \in I : contribution(x).read > 0 /\ contribution(y).read > 0 => x = y
  BY InitsUnique
<1> HIDE DEF X, I
<1>7. ReadOf(X) \in [X -> Nat] /\ WriteOf(X) \in [X -> Nat]
  BY <1>2, <1>3, <1>4 DEF ReadOf, WriteOf
<1>8. InitsOf(I, X, ReadOf(X), WriteOf(X))
  BY <1>2, <1>3, <1>4, <1>5 DEF InitsOf, ReadOf, WriteOf
<1>9. \A x, y \in I : ReadOf(X)[x] > 0 /\ ReadOf(X)[y] > 0 => x = y
  BY <1>4, <1>6 DEF ReadOf
<1>10. X \ I = X \cap (AccessParts \cup DelegationParts)
  BY <1>4, <1>5
<1> QED
  BY <1>1, <1>7, <1>8, <1>9, <1>10 DEF X, I

\* The order of the writes of a cell, from the memory argument
LEMMA CellOrder ==
    ASSUME Facts, at = "accepted", NEW cell
    PROVE  LET X == OfCell(cell)
               A == X \cap (AccessParts \cup DelegationParts)
           IN  /\ \A x, y \in A : contribution(y).write < contribution(x).write
                                      => contribution(y).write <= contribution(x).read
               /\ \A y \in A : \E i \in InitsOfCell(cell) : contribution(i).read >= contribution(y).write
               /\ \A x \in X : \E y \in X : contribution(y).write = contribution(x).read
<1> DEFINE X == OfCell(cell)
           I == InitsOfCell(cell)
           A == X \cap (AccessParts \cup DelegationParts)
           r == ReadOf(X)
           w == WriteOf(X)
<1>1. /\ IsFiniteSet(X) /\ r \in [X -> Nat] /\ w \in [X -> Nat] /\ InitsOf(I, X, r, w)
      /\ \A x, y \in I : r[x] > 0 /\ r[y] > 0 => x = y
      /\ X \ I = A
  BY CellHistory
<1>2. Balanced(X, r, w)
  BY CellBalanced
<1>3. I \subseteq X /\ \A x \in X : r[x] = contribution(x).read /\ w[x] = contribution(x).write
  BY DEF ReadOf, WriteOf, InitsOfCell
<1> HIDE DEF X, I, A, r, w
<1>4. /\ \A x, y \in X \ I : w[y] < w[x] => w[y] <= r[x]
      /\ \A y \in X \ I : \E i \in I : r[i] >= w[y]
  BY <1>1, <1>2, SingleHistory
<1>5. ASSUME NEW x \in X PROVE \E y \in X : w[y] = r[x]
  <2>1. r[x] \in Nat /\ x \in At(X, r, r[x])
    BY <1>1 DEF At
  <2>2. Cardinality(At(X, r, r[x])) = Cardinality(At(X, w, r[x]))
    BY <1>2, <2>1 DEF Balanced
  <2>3. IsFiniteSet(At(X, r, r[x])) /\ IsFiniteSet(At(X, w, r[x]))
    BY <1>1, FS_Subset DEF At
  <2>4. At(X, w, r[x]) # {}
    BY <2>1, <2>2, <2>3, FS_EmptySet
  <2> QED
    BY <2>4 DEF At
<1>6. A \subseteq X
  BY DEF A
<1>7. \A x, y \in A : contribution(y).write < contribution(x).write => contribution(y).write <= contribution(x).read
  BY <1>1, <1>3, <1>4, <1>6
<1>8. \A y \in A : \E i \in I : contribution(i).read >= contribution(y).write
  BY <1>1, <1>3, <1>4, <1>6
<1>9. \A x \in X : \E y \in X : contribution(y).write = contribution(x).read
  BY <1>3, <1>5
<1> QED
  BY <1>7, <1>8, <1>9 DEF X, I, A

\* Theorem: in an accepted statement every access reads what was last written.
THEOREM MemoryIsMemory == Spec => []MemoryConsistent
<1>1. ASSUME Facts, at = "accepted", NEW cell
      PROVE  /\ \A t \in WrittenAt(cell) : t = 0 \/ \E y \in OfCell(cell) \cap (AccessParts \cup DelegationParts) :
                                                              t = contribution(y).write
             /\ \A x \in OfCell(cell) : contribution(x).read \in WrittenAt(cell)
  <2>1. \A x \in AccessParts \cup DelegationParts : x \in Parts /\ executed_at(x) = contribution(x).write
    BY <1>1, AccessContribution, DelegationContribution DEF Parts
  <2>2. {y \in AccessParts \cup DelegationParts : contribution(y).cell = cell}
          = OfCell(cell) \cap (AccessParts \cup DelegationParts)
    BY <2>1 DEF OfCell
  <2>3. \A t \in WrittenAt(cell) : t = 0 \/ \E y \in OfCell(cell) \cap (AccessParts \cup DelegationParts) :
                                                t = contribution(y).write
    BY <2>1, <2>2 DEF WrittenAt
  <2>4. ASSUME NEW x \in OfCell(cell) PROVE contribution(x).read \in WrittenAt(cell)
    <3>1. PICK y \in OfCell(cell) : contribution(y).write = contribution(x).read
      BY <1>1, CellOrder
    <3>2. CASE y \in RegisterParts \cup InitParts
      <4>1. contribution(y).write = 0
        <5>1. CASE y \in RegisterParts
          BY <1>1, <5>1, RegisterContribution
        <5>2. CASE y \in InitParts
          BY <1>1, <5>2, InitContribution
        <5> QED
          BY <3>2, <5>1, <5>2
      <4> QED
        BY <3>1, <4>1 DEF WrittenAt
    <3>3. CASE y \in AccessParts \cup DelegationParts
      <4>1. y \in {z \in AccessParts \cup DelegationParts : contribution(z).cell = cell}
        BY <3>3 DEF OfCell
      <4>2. executed_at(y) = contribution(x).read
        BY <2>1, <3>1, <3>3
      <4> QED
        BY <4>1, <4>2 DEF WrittenAt
    <3> QED
      BY <3>2, <3>3 DEF OfCell, Parts
  <2> QED
    BY <2>3, <2>4
<1>2. ASSUME Facts, at = "accepted", NEW x \in AccessParts \cup DelegationParts
      PROVE  ReadsLatest(contribution(x).cell, contribution(x).read, executed_at(x))
  <2> DEFINE cell == contribution(x).cell
  <2>1. /\ executed_at(x) = contribution(x).write /\ contribution(x).read \in Nat
        /\ x \in OfCell(cell) \cap (AccessParts \cup DelegationParts)
    BY <1>2, AccessContribution, DelegationContribution DEF OfCell, Parts
  <2> HIDE DEF cell
  <2>2. contribution(x).read \in WrittenAt(cell)
    BY <1>1, <1>2, <2>1
  <2>3. ASSUME NEW t \in WrittenAt(cell), t < contribution(x).write PROVE t <= contribution(x).read
    <3>1. CASE t = 0
      BY <2>1, <3>1
    <3>2. CASE t # 0
      <4>1. PICK y \in OfCell(cell) \cap (AccessParts \cup DelegationParts) : t = contribution(y).write
        BY <1>1, <1>2, <3>2
      <4> QED
        BY <1>2, <2>1, <2>3, <4>1, CellOrder
    <3> QED
      BY <3>1, <3>2
  <2> QED
    BY <2>1, <2>2, <2>3 DEF ReadsLatest, cell
<1>3. ASSUME Facts, at = "accepted", NEW x \in 0 .. Registers - 1
      PROVE  registers[x] \in WrittenAt(Reg(x)) /\ \A t \in WrittenAt(Reg(x)) : t <= registers[x]
  <2> DEFINE p == <<"register", x, 0, 0>>
  <2>1. p \in RegisterParts /\ p[2] = x
    BY DEF RegisterParts
  <2>2. /\ contribution(p).cell = Reg(x) /\ contribution(p).read = registers[x] /\ registers[x] \in Nat
        /\ p \in OfCell(Reg(x))
    BY <1>3, <2>1, RegisterContribution DEF OfCell, Parts
  <2>3. ASSUME NEW i \in InitsOfCell(Reg(x)) PROVE contribution(i).read = registers[x]
    <3>1. contribution(i).cell = Reg(x) /\ i \in RegisterParts \cup InitParts
      BY DEF InitsOfCell, OfCell
    <3>2. i \in RegisterParts
      <4>1. \A a : Ram(a) # Reg(x)
        BY DEF Reg, Ram
      <4> QED
        BY <1>3, <3>1, <4>1, InitContribution
    <3>3. contribution(i).cell = Reg(i[2]) /\ contribution(i).read = registers[i[2]]
      BY <1>3, <3>2, RegisterContribution
    <3>4. i[2] = x
      BY <3>1, <3>3 DEF Reg
    <3> QED
      BY <3>3, <3>4
  <2>4. ASSUME NEW t \in WrittenAt(Reg(x)) PROVE t <= registers[x]
    <3>1. CASE t = 0
      BY <2>2, <3>1
    <3>2. CASE t # 0
      <4>1. PICK y \in OfCell(Reg(x)) \cap (AccessParts \cup DelegationParts) : t = contribution(y).write
        BY <1>1, <1>3, <3>2
      <4>2. PICK i \in InitsOfCell(Reg(x)) : contribution(i).read >= contribution(y).write
        BY <1>3, CellOrder
      <4>3. contribution(y).write \in Nat
        BY <1>3, AccessContribution, DelegationContribution
      <4> QED
        BY <2>2, <2>3, <4>1, <4>2, <4>3
    <3> QED
      BY <3>1, <3>2
  <2> QED
    BY <1>1, <1>3, <2>2, <2>4
<1>4. Facts => MemoryConsistent
  BY <1>2, <1>3 DEF MemoryConsistent
<1> QED
  BY <1>4, FactsInvariant, PTL

----------------------------------------------------------------------------
(* Delegations *)

\* A quotient weighs more than a remainder.
LEMMA QuotientFirst ==
    ASSUME NEW n \in Nat, NEW i \in Nat, NEW j \in Nat, i < j, NEW c \in Nat, NEW d \in Nat, c < n
    PROVE  i * n + c < j * n + d
<1>1. PICK k \in Nat : j = i + 1 + k
  <2>1. j - i - 1 \in Nat /\ j = i + 1 + (j - i - 1)
    OBVIOUS
  <2> QED
    BY <2>1
<1>2. j * n = i * n + n + k * n /\ i * n \in Nat /\ k * n \in Nat
  BY <1>1
<1> QED
  BY <1>2

\* Cycles of circuits with different sequence numbers, or of one circuit, have
\* different timestamps.
LEMMA TimeInjective ==
    ASSUME NEW i \in Nat, NEW j \in Nat, NEW c \in Cycles, NEW d \in Cycles, NEW k \in Nat,
           Time(i, c, k) = Time(j, d, k)
    PROVE  i = j /\ c = d
<1> DEFINE S == AccessesPerCycle + 1
           N == CyclesPerChunk + 1
           u == i * N + (c + 1)
           v == j * N + (d + 1)
<1>1. /\ S \in Nat \ {0} /\ N \in Nat /\ c + 1 \in Nat /\ d + 1 \in Nat /\ c + 1 < N /\ d + 1 < N
      /\ c \in Nat /\ d \in Nat
  BY StatementAssumption DEF Cycles
<1>2. /\ i * N \in Nat /\ j * N \in Nat
  BY <1>1
<1>3. u \in Nat /\ v \in Nat /\ Time(i, c, k) = S * u + k /\ Time(j, d, k) = S * v + k
  <2>1. /\ Time(i, c, k) = S * (i * N + c + 1) + k
        /\ Time(j, d, k) = S * (j * N + d + 1) + k
    BY Zenon DEF Time, TIMESTAMP_STEP
  <2> HIDE DEF S, N
  <2>2. i * N + c + 1 = u /\ u \in Nat
    <3>1. \A m \in Nat : m + c + 1 = m + (c + 1) /\ m + (c + 1) \in Nat
      BY <1>1
    <3> QED
      BY <1>2, <3>1, Zenon
  <2>3. j * N + d + 1 = v /\ v \in Nat
    <3>1. \A m \in Nat : m + d + 1 = m + (d + 1) /\ m + (d + 1) \in Nat
      BY <1>1
    <3> QED
      BY <1>2, <3>1, Zenon
  <2> QED
    BY <2>1, <2>2, <2>3, Zenon
<1> HIDE DEF S, N
<1>4. u = v
  <2> HIDE DEF u, v
  <2>1. u * S = v * S
    <3>1. S * u \in Nat /\ S * v \in Nat /\ S * u = u * S /\ S * v = v * S
      BY <1>1, <1>3
    <3>2. S * u + k = S * v + k
      BY <1>3
    <3>3. \A a, b \in Nat : a + k = b + k => a = b
      OBVIOUS
    <3>4. S * u = S * v
      BY <3>1, <3>2, <3>3
    <3> QED
      BY <3>1, <3>4
  <2>2. ~(u < v) /\ ~(v < u)
    <3>1. u * S \in Nat /\ v * S \in Nat
      BY <1>1, <1>3
    <3>2. u < v => u * S + 0 < v * S + 0
      BY <1>1, <1>3, QuotientFirst
    <3>3. v < u => v * S + 0 < u * S + 0
      BY <1>1, <1>3, QuotientFirst
    <3> QED
      BY <2>1, <3>1, <3>2, <3>3
  <2> QED
    BY <1>3, <2>2
<1>5. ~(i < j)
  <2>1. i < j => u < v
    BY <1>1, QuotientFirst
  <2> QED
    BY <1>3, <1>4, <2>1
<1>6. ~(j < i)
  <2>1. j < i => v < u
    BY <1>1, QuotientFirst
  <2> QED
    BY <1>3, <1>4, <2>1
<1>7. i = j
  BY <1>5, <1>6
<1>8. c = d
  BY <1>1, <1>2, <1>4, <1>7
<1> QED
  BY <1>7, <1>8

\* Fewer responses than the field has elements
LEMMA RespondersBounded ==
    ASSUME Facts, at = "accepted", NEW type, NEW t
    PROVE  /\ IsFiniteSet(responders(type, t)) /\ Cardinality(responders(type, t)) \in Nat
           /\ Cardinality(responders(type, t)) < CHARACTERISTICS
<1> DEFINE B == (1 .. Len(delegations)) \X (1 .. RequestsPerCircuit)
<1>1. Len(delegations) \in Nat /\ RequestsPerCircuit \in Nat /\ CHARACTERISTICS \in Nat
  BY StatementAssumption DEF Facts, TypeOK
<1>2. /\ IsFiniteSet(1 .. Len(delegations)) /\ Cardinality(1 .. Len(delegations)) = Len(delegations)
      /\ IsFiniteSet(1 .. RequestsPerCircuit) /\ Cardinality(1 .. RequestsPerCircuit) = RequestsPerCircuit
  <2>1. ASSUME NEW n \in Nat PROVE IsFiniteSet(1 .. n) /\ Cardinality(1 .. n) = n
    <3>1. IsFiniteSet(1 .. n) /\ Cardinality(1 .. n) = (IF 1 > n THEN 0 ELSE n - 1 + 1)
      BY FS_Interval
    <3> QED
      BY <3>1
  <2> QED
    BY <1>1, <2>1
<1>3. IsFiniteSet(B) /\ Cardinality(B) = Len(delegations) * RequestsPerCircuit
  <2>1. IsFiniteSet(B) /\ Cardinality(B) = Cardinality(1 .. Len(delegations)) * Cardinality(1 .. RequestsPerCircuit)
    BY <1>2, FS_Product, Zenon
  <2> QED
    BY <1>2, <2>1
<1>4. responders(type, t) \in SUBSET B
  BY DEF responders
<1>5. Len(delegations) * RequestsPerCircuit < CHARACTERISTICS
  BY DEF Facts, Verdict, total_delegation_requests
<1> HIDE DEF B
<1>6. IsFiniteSet(responders(type, t)) /\ Cardinality(responders(type, t)) <= Cardinality(B)
  BY <1>3, <1>4, FS_Subset
<1>7. Cardinality(responders(type, t)) \in Nat /\ Cardinality(B) \in Nat
  BY <1>3, <1>6, FS_CardinalityType
<1> QED
  BY <1>1, <1>3, <1>5, <1>6, <1>7

\* and one request at most at a time: "All requests are unique".
LEMMA RequesterUnique ==
    ASSUME Facts, NEW i \in 1 .. Len(main), NEW c \in Cycles, NEW type, type = main[i].memory.requests[c]
    PROVE  requesters(type, Time(i - 1, c, DELEGATION_ACCESS_IDX)) = {<<i, c>>}
<1> DEFINE t == Time(i - 1, c, DELEGATION_ACCESS_IDX)
<1>1. \A n \in 1 .. Len(main) : main[n].circuit_sequence = n - 1 /\ n - 1 \in Nat /\ n \in Nat
  BY MainFactOf DEF MainFact
<1>2. DELEGATION_ACCESS_IDX \in Nat
  BY StatementAssumption DEF DELEGATION_ACCESS_IDX
<1>3. <<i, c>> \in requesters(type, t)
  BY <1>1 DEF requesters
<1>4. ASSUME NEW ic \in requesters(type, t) PROVE ic = <<i, c>>
  <2>1. /\ ic = <<ic[1], ic[2]>> /\ ic[1] \in 1 .. Len(main) /\ ic[2] \in Cycles
        /\ Time(main[ic[1]].circuit_sequence, ic[2], DELEGATION_ACCESS_IDX) = t
    BY DEF requesters
  <2>2. Time(ic[1] - 1, ic[2], DELEGATION_ACCESS_IDX) = t
    BY <1>1, <2>1
  <2>3. ic[1] - 1 = i - 1 /\ ic[2] = c
    BY <1>1, <1>2, <2>1, <2>2, TimeInjective
  <2> QED
    BY <1>1, <2>1, <2>3
<1> QED
  BY <1>3, <1>4

\* Theorem: in an accepted statement every delegation is answered, once.
THEOREM EveryDelegationAnswered == Spec => []DelegationsAnswered
<1>1. \A n \in Nat : n < CHARACTERISTICS => n % CHARACTERISTICS = n
  BY StatementAssumption
<1>2. ASSUME Facts, at = "accepted", NEW i \in 1 .. Len(main), NEW c \in Cycles,
             main[i].memory.requests[c] # 0
      PROVE  Cardinality(responders(main[i].memory.requests[c], Time(i - 1, c, DELEGATION_ACCESS_IDX))) = 1
  <2> DEFINE type == main[i].memory.requests[c]
             t == Time(i - 1, c, DELEGATION_ACCESS_IDX)
  <2>1. main[i] \in MainProofType /\ MainFact(main, i) /\ Len(main) \in Nat
    BY <1>2, MainFactOf
  <2>2. type \in 1 .. NumDelegationTypes
    <3>1. main[i].memory \in MainMemory
      BY <2>1 DEF MainProofType
    <3>2. type \in 0 .. NumDelegationTypes
      BY <3>1 DEF MainMemory
    <3> QED
      BY <1>2, <3>2, StatementAssumption
  <2>3. i - 1 \in Nat /\ main[i].circuit_sequence = i - 1
    BY <2>1 DEF MainFact
  <2>4. t > 0
    <3>1. DELEGATION_ACCESS_IDX \in 0 .. AccessesPerCycle
      BY StatementAssumption DEF DELEGATION_ACCESS_IDX
    <3> QED
      BY <2>3, <3>1, TimeType
  <2>5. t \in (RequestTimes \cup ResponseTimes) \ {0}
    BY <2>3, <2>4 DEF RequestTimes
  <2>6. sum_is_zero
    BY <1>2 DEF Facts, Verdict
  <2>7. requesters(type, t) = {<<i, c>>}
    BY <1>2, RequesterUnique
  <2> HIDE DEF type, t
  <2>8. Cardinality(requesters(type, t)) % CHARACTERISTICS = Cardinality(responders(type, t)) % CHARACTERISTICS
    BY <2>2, <2>5, <2>6 DEF sum_is_zero
  <2>9. Cardinality(requesters(type, t)) = 1
    BY <2>7, FS_Singleton
  <2>10. Cardinality(responders(type, t)) \in Nat /\ Cardinality(responders(type, t)) < CHARACTERISTICS
    BY <1>2, RespondersBounded
  <2>11. Cardinality(responders(type, t)) % CHARACTERISTICS = Cardinality(responders(type, t))
    BY <1>1, <2>10
  <2>12. 1 % CHARACTERISTICS = 1
    BY <1>1, StatementAssumption
  <2>13. Cardinality(responders(type, t)) = 1
    BY <2>8, <2>9, <2>11, <2>12
  <2> QED
    BY <2>13 DEF type, t
<1>3. ASSUME Facts, at = "accepted", NEW j \in 1 .. Len(delegations), NEW r \in 1 .. RequestsPerCircuit,
             answers(j, r)
      PROVE  \E i \in 1 .. Len(main) : \E c \in Cycles :
                /\ main[i].memory.requests[c] = delegations[j].delegation_type
                /\ Time(i - 1, c, DELEGATION_ACCESS_IDX) = delegations[j].memory[r].timestamp
  <2> DEFINE type == delegations[j].delegation_type
             t == delegations[j].memory[r].timestamp
  <2>1. type \in 1 .. NumDelegationTypes
    <3>1. delegations[j] \in DelegationProofType
      BY <1>3 DEF Facts, TypeOK
    <3> QED
      BY <3>1 DEF DelegationProofType
  <2>2. t \in (RequestTimes \cup ResponseTimes) \ {0} /\ <<j, r>> \in responders(type, t)
    <3>1. t \in ResponseTimes
      <4>1. \E k \in 1 .. Len(delegations), q \in 1 .. RequestsPerCircuit : t = delegations[k].memory[q].timestamp
        BY <1>3, Zenon
      <4> HIDE DEF t
      <4> QED
        BY <4>1 DEF ResponseTimes
    <3>2. t # 0
      BY <1>3 DEF answers
    <3>3. <<j, r>> \in responders(type, t)
      BY DEF responders
    <3> QED
      BY <3>1, <3>2, <3>3
  <2>3. sum_is_zero
    BY <1>3 DEF Facts, Verdict
  <2> HIDE DEF type, t
  <2>4. Cardinality(requesters(type, t)) % CHARACTERISTICS = Cardinality(responders(type, t)) % CHARACTERISTICS
    BY <2>1, <2>2, <2>3 DEF sum_is_zero
  <2>5. /\ IsFiniteSet(responders(type, t)) /\ Cardinality(responders(type, t)) \in Nat
        /\ Cardinality(responders(type, t)) < CHARACTERISTICS
    BY <1>3, RespondersBounded
  <2>6. Cardinality(responders(type, t)) # 0
    BY <2>2, <2>5, FS_EmptySet
  <2>7. Cardinality(responders(type, t)) % CHARACTERISTICS = Cardinality(responders(type, t))
    BY <1>1, <2>5
  <2>8. 0 % CHARACTERISTICS = 0
    BY <1>1, StatementAssumption
  <2>9. requesters(type, t) # {}
    BY <2>4, <2>6, <2>7, <2>8, FS_EmptySet
  <2>10. PICK ic \in requesters(type, t) : TRUE
    BY <2>9
  <2>11. /\ ic[1] \in 1 .. Len(main) /\ ic[2] \in Cycles /\ main[ic[1]].memory.requests[ic[2]] = type
         /\ Time(main[ic[1]].circuit_sequence, ic[2], DELEGATION_ACCESS_IDX) = t
    BY DEF requesters
  <2>12. main[ic[1]].circuit_sequence = ic[1] - 1
    BY <1>3, <2>11, MainFactOf DEF MainFact
  <2> QED
    BY <2>11, <2>12 DEF type, t
<1>4. Facts => DelegationsAnswered
  BY <1>2, <1>3 DEF DelegationsAnswered
<1> QED
  BY <1>4, FactsInvariant, PTL

\* Theorem: the output of an accepted statement speaks of one run of one program.
THEOREM OneRunOfOneProgram == Spec => []EndParamsOfAll
<1>1. ASSUME Facts, at = "accepted" PROVE EndParamsOfAll
  <2>1. Len(main) \in Nat /\ Len(main) >= 1
    BY <1>1 DEF Facts, TypeOK, Progress
  <2>2. \A i \in 1 .. Len(main) : MainFact(main, i)
    BY <1>1, MainFactOf
  <2>3. main[1].input_pc = 0
    BY <2>1, <2>2 DEF MainFact
  <2>4. \A i \in 1 .. Len(main) : main[i].setup_caps = main[1].setup_caps
    BY <2>2 DEF MainFact
  <2>5. \A i \in 1 .. Len(main) - 1 : main[i + 1].input_pc = main[i].output_pc
    <3>1. ASSUME NEW i \in 1 .. Len(main) - 1 PROVE main[i + 1].input_pc = main[i].output_pc
      <4>1. i + 1 \in 1 .. Len(main) /\ i + 1 > 1 /\ (i + 1) - 1 = i
        BY <2>1
      <4>2. MainFact(main, i + 1)
        BY <2>2, <4>1
      <4>3. main[i + 1].input_pc = main[(i + 1) - 1].output_pc
        BY <4>1, <4>2 DEF MainFact
      <4> QED
        BY <4>1, <4>3
    <3> QED
      BY <3>1
  <2>6. \E n \in 1 .. Len(main) : proof_output_0 = main[n]
    <3> DEFINE n == IF Len(main) % 2 = 1 THEN Len(main) ELSE Len(main) - 1
    <3>1. n \in 1 .. Len(main)
      BY <2>1
    <3> QED
      BY <3>1 DEF proof_output_0
  <2> QED
    BY <2>3, <2>4, <2>5, <2>6 DEF EndParamsOfAll
<1>2. Facts => EndParamsOfAll
  BY <1>1 DEF EndParamsOfAll
<1> QED
  BY <1>2, FactsInvariant, PTL

\* Theorem: type correctness.
THEOREM StatementTypes == Spec => []TypeOK
<1>1. Facts => TypeOK
  BY DEF Facts
<1> QED
  BY <1>1, FactsInvariant, PTL
=============================================================================
