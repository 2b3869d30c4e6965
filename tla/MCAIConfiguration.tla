-------------------------- MODULE MCAIConfiguration --------------------------
EXTENDS AIConfiguration

CONSTANTS e1, e2, cloudA, cloudB, local, openai, home, chat, realtime, text, voice

MCOwner == [m \in Model |-> IF m = local THEN home ELSE openai]
MCClaims == [m \in Model |-> IF m = cloudB THEN {text, voice} ELSE {text}]
MCRequires == [k \in Profile |-> IF k = chat THEN {text} ELSE {voice}]
Canonical(m, v) == [k \in Profile |-> IF k = chat THEN m ELSE v]
MCBootstraps == {Canonical(cloudA, NoModel), Canonical(cloudB, cloudB), Canonical(local, NoModel)}
MCPatches == {[enabled |-> FALSE], [local |-> TRUE], [canonical |-> FALSE]}
MCOrders == {<<>>, <<[model |-> local, enabled |-> TRUE]>>,
             <<[model |-> cloudB, enabled |-> FALSE], [model |-> cloudA, enabled |-> TRUE]>>}
=============================================================================
