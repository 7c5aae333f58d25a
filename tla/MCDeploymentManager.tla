------------------------ MODULE MCDeploymentManager ------------------------
\* DeploymentManager on a small instance: the first tenant's first model is
\* deleted under the second model's name, and the third model's name is another
\* spelling of the first one's path.
EXTENDS DeploymentManager

CONSTANTS t1, n1, n2, n3, other

MCJoined == [p \in Tenants \X Names |-> IF p = <<t1, n1>> THEN n2 ELSE other]
MCFileOf == [n \in Names |-> IF n = n3 THEN n1 ELSE n]
=============================================================================
