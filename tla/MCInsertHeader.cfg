SPECIFICATION Spec
CONSTANT MaxMessages = 3
INVARIANT MisplacedHeaderIsAClientError
