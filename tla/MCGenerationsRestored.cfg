SPECIFICATION Spec
CONSTANTS
    g1 = g1  g2 = g2  g3 = g3  c1 = c1  c2 = c2  c3 = c3  s1 = s1  s2 = s2  t1 = t1
    Gen <- TwoGenerations
    Cred <- Credentials
    Secret <- Secrets
    Token <- Tokens
    Legacy = Legacy  None = None  Unissued = Unissued  Revoked = Revoked
    Journaled = TRUE
    MaxFaults = 2
SYMMETRY Symmetric
INVARIANTS RestoreRetainsAgentTokens RevocationIsIrreversible
