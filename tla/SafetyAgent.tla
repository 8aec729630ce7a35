----------------------------- MODULE SafetyAgent -----------------------------
(***************************************************************************)
(* The research agent of src/backend/app/safety: a question is answered by *)
(* a language model that calls tools over the corpus, and the answer cites *)
(* the retrieved documents it refers to.  The corpus is ingested and       *)
(* synchronised by other processes meanwhile.                              *)
(***************************************************************************)
EXTENDS SafetyCorpus

CONSTANTS
    Reference,       \* cfr_reference: a dated section -> the section, of any date
    MaxIterations,   \* agent_max_iterations: messages of the model
    ResultLimit,     \* n_results
    Texts,           \* texts of answers: the labels each refers to
    MaxCalls,        \* bound: tool calls for one question
    MaxQueries       \* bound: questions

VARIABLES
    agent,    \* [at, iteration, pending: calls of the message not yet executed]
    calls,    \* tool_calls_made: [tool, items], an item [document, run, text]
    answer,   \* [outcome, refs: labels in the text, citations]
    questions \* asked so far, for the bound
agentVars == <<agent, calls, answer, questions>>

ASSUME AgentAssumption == ResultLimit \in Nat

\* The label of a source: dated versions of a section share their reference.
Label(item) == LET id == item.document[1] IN IF id \in Sections THEN Reference[id] ELSE id
NoAnswer == [outcome |-> "none", refs |-> {}, citations |-> {}]
Ended(outcome) == [NoAnswer EXCEPT !.outcome = outcome]

\* The matches of a search of the vector store, the best first; texts of
\* documents are never empty.
Search(ids) ==
    LET docs == {e \in vectors : e[1][1] \in ids}
        Item(e) == [document |-> e[1], run |-> e[2], text |-> TRUE]
    IN  {<<>>} \cup UNION {{[i \in 1..n |-> Item(found[i])] :
             found \in {f \in [1..n -> docs] : \A i, j \in 1..n : i # j => f[i] # f[j]}} :
             n \in 1..ResultLimit}

SearchNarratives == Search(Incidents)
SearchRegulations == Search(Sections)

\* The row of one incident; its text, narrative or probable cause, may be empty.
IncidentDetail(id) ==
    {<<>>} \cup {<<[document |-> <<id, "detail">>, run |-> row.run, text |-> row.text # "none"]>> :
                 row \in rows[id]}

\* What a call can return for citation.  A tool that fails, one of an unknown
\* name, and the two that answer with statistics and context return no item:
\* the latter have their documents under other keys.
Results ==
    [search_incident_narratives  |-> SearchNarratives,
     search_faa_regulations      |-> SearchRegulations,
     get_incident_detail         |-> UNION {IncidentDetail(id) : id \in Incidents},
     other                       |-> {<<>>}]

\* A question; without a key of the model service there is no answer.
Question ==
    /\ agent.at = "idle" /\ questions < MaxQueries
    /\ questions' = questions + 1
    /\ calls' = <<>>
    /\ \/ /\ agent' = [at |-> "model", iteration |-> 1, pending |-> 0]
          /\ answer' = NoAnswer
       \/ /\ answer' = Ended("error")
          /\ UNCHANGED agent

\* _call_model: the messages so far go to the model, which may take its turn
\* only so often.
ModelTurn == agent.at = "model" /\ agent.iteration <= MaxIterations

\* The model asks for tools.
CallTools ==
    /\ ModelTurn
    /\ \E n \in 1..(MaxCalls - Len(calls)) :
         agent' = [agent EXCEPT !.at = "tools", !.pending = n]
    /\ UNCHANGED <<calls, answer, questions>>

\* The calls of a message are executed in order, each result is kept.
ExecuteTool ==
    /\ agent.at = "tools"
    /\ \E tool \in DOMAIN Results : \E items \in Results[tool] :
         calls' = Append(calls, [tool |-> tool, items |-> items])
    /\ agent' = IF agent.pending > 1 THEN [agent EXCEPT !.pending = @ - 1]
                ELSE [at |-> "model", iteration |-> agent.iteration + 1, pending |-> 0]
    /\ UNCHANGED <<answer, questions>>

\* extract_grounded_citations: the first retrieved item with a text of each
\* label that the answer refers to.
Extracted(refs, made) ==
    LET items == FlattenSeq([i \in DOMAIN made |-> made[i].items])
        Grounded(i) == items[i].text /\ Label(items[i]) \in refs
    IN  {items[i] : i \in {k \in DOMAIN items :
             Grounded(k) /\ \A h \in 1..(k - 1) : Grounded(h) => Label(items[h]) # Label(items[k])}}

Answer ==
    /\ ModelTurn
    /\ \E refs \in Texts :
         answer' = [outcome |-> "answered", refs |-> refs, citations |-> Extracted(refs, calls)]
    /\ agent' = [agent EXCEPT !.at = "idle"]
    /\ UNCHANGED <<calls, questions>>

GiveUp ==
    /\ agent.at = "model" /\ agent.iteration > MaxIterations
    /\ answer' = Ended("max_iterations")
    /\ agent' = [agent EXCEPT !.at = "idle"]
    /\ UNCHANGED <<calls, questions>>

\* The model service fails, or the arguments of a call are not JSON or not those
\* of the tool.
AgentFails ==
    /\ ModelTurn \/ agent.at = "tools"
    /\ answer' = Ended("error")
    /\ agent' = [agent EXCEPT !.at = "idle"]
    /\ UNCHANGED <<calls, questions>>

AgentInit ==
    /\ agent = [at |-> "idle", iteration |-> 0, pending |-> 0]
    /\ calls = <<>>
    /\ answer = NoAnswer
    /\ questions = 0
SafetyInit == CorpusInit /\ AgentInit
AgentNext == Question \/ CallTools \/ ExecuteTool \/ Answer \/ GiveUp \/ AgentFails
SafetyNext ==
    \/ AgentNext /\ UNCHANGED corpusVars
    \/ CorpusNext /\ UNCHANGED agentVars

SafetySpec == SafetyInit /\ [][SafetyNext]_<<corpusVars, agentVars>>

\* A citation names a source that holds the cited text: whatever was ingested,
\* synchronised or cut short before and since, the run of a citation is the one
\* whose content has that document.  An answer cites each source once, cites every
\* retrieved source it refers to, and nothing it does not refer to.
HoldsDocument(run, document) ==
    LET id == document[1]
        OfText(text) == document[2] = "detail" \/ document \in Range(Documents(id, text))
    IN  IF run = NoRun THEN OfText(Unversioned[id])
        ELSE \E a \in Artifacts : a.name = run
                 /\ \E r \in Parsed(a) : r.id = id /\ r.text # "none" /\ OfText(r.text)
RetrievedLabels ==
    UNION {{Label(calls[i].items[k]) : k \in {j \in DOMAIN calls[i].items : calls[i].items[j].text}} :
               i \in DOMAIN calls}
CitationsAreGrounded ==
    /\ \A c \in answer.citations : c.run \in runs \cup {NoRun} /\ HoldsDocument(c.run, c.document)
    /\ \A c, d \in answer.citations : Label(c) = Label(d) => c = d
    /\ answer.outcome = "answered" =>
         {Label(c) : c \in answer.citations} = answer.refs \cap RetrievedLabels
=============================================================================
