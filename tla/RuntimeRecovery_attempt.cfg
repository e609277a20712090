SPECIFICATION Spec
CONSTANTS
    j1 = j1
    j2 = j2
    c1 = c1
    s1 = s1
    t1 = t1
    t2 = t2
    t3 = t3
    Jobs = {j1}
    Circuits = {c1}
    CircuitOf <- MCCircuitOf
    SessionOf <- MCSessionOf
    NativeMembers = {j1}
    Details = {d1, d2}
    Reports = {r1}
    Tokens = {t1, t2}
    MaxAttempts = 2
    MaxFaults = 1
    NoJob = NoJob
    NoToken = NoToken
    NoDetail = NoDetail
    NoMessage = NoMessage
PROPERTIES RetryIsNextAttempt
