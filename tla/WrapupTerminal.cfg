CONSTANTS
    Requests = {r1}
    Scripts = {}
    Workers = {w1}
SPECIFICATION Spec
PROPERTIES
    RunsKeepReadable
