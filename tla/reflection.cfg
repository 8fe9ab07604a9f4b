SPECIFICATION Spec
CONSTANTS
    Versions = {1, 2}
    Under = {2}
    Indexed = {2}
INVARIANT TypeOK AnswerOfAMoment AnswersAreRepeated
