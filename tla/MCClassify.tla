----------------------------- MODULE MCClassify -----------------------------
(* Classify with the kinds of calls each backend has reason to meet.         *)
EXTENDS Classify, MCRouting
CONSTANTS c1, c2

Policy(classifier, judge, keys) == [classifier |-> classifier, judge |-> judge, keys |-> keys]
ClassifierSetup(policy, asks) == [policy |-> policy, asks |-> asks]
MCClassifiers ==
  {ClassifierSetup(Policy("local", "none", {}), {"rank"}),
   ClassifierSetup(Policy("local-s1", "none", {}), {"turn", "rank"}),
   ClassifierSetup(Policy("route-head", "none", {}), {"turn"}),
   ClassifierSetup(Policy(None, None, {"TYPESAFE"}), {"judge", "rank"}),
   ClassifierSetup(Policy("jev", "hosted", {}), {"turn", "judge"}),
   ClassifierSetup(Policy("decisionmodels", "none", {"DECISIONMODELS"}), {"turn", "judge"}),
   ClassifierSetup(Policy("local-jev", "same-as-classifier", {}), {"judge"}),
   ClassifierSetup(Policy("local-s1", "same-as-classifier", {}), {"turn"})}

Reply(choice, score, noul, objects) == [choice |-> choice, score |-> score, noul |-> noul, objects |-> objects]
MCReplies == {Reply("coding", 3, 8, TRUE), Reply("general", None, 12, TRUE), Reply(None, 1, 2, TRUE),
              Reply("coding", 1, 2, FALSE)}
MCLetters == {[top |-> <<3, 1>>, text |-> 1], [top |-> None, text |-> 2], [top |-> None, text |-> None]}
MCSoftmax == <<3, 1>> :> <<8, 2>>

Candidate(id, model, input, read, output, cached) ==
  [id |-> id, model |-> model, input |-> input, read |-> read, output |-> output, cached |-> cached]
Body(tradeoff, candidates) ==
  [messages |-> 1, tradeoff |-> tradeoff, candidates |-> candidates, prompt |-> 12, stated |-> None, n |-> 2,
   tools |-> FALSE]
MCBodies ==
  {Body(5, <<Candidate("a", cheap, 1, 1, 2, 0), Candidate("b", strong, 6, 1, 20, 10),
             Candidate("c", strong, 5, 5, 25, 20)>>),
   [Body(0, <<Candidate("a", cheap, 1, 1, 2, 0), Candidate("z", "unknown", 6, 1, 20, 0)>>) EXCEPT !.stated = 3],
   Body(5, <<Candidate("z", "unknown", 6, 1, 20, 0)>>),
   Body(11, <<Candidate("a", cheap, 1, 1, 2, 0)>>)}
=============================================================================
