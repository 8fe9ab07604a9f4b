SPECIFICATION Spec
CONSTANTS
    Conns = {c1, c2}
    Tracers = {t1, t2}
INVARIANT TypeOK TracingIsOwned BlockIsTraced
