SPECIFICATION Spec
CONSTANTS
  None = None
  Undefined = Undefined
  register = register
  login = login
  password = password
  confirm = confirm
  mail = mail
  terms = terms
  pin = pin
  HasExtension = FALSE
  Form <- MCForm
  Order <- MCOrder
  FormOf <- MCFormOf
  Part <- MCPart
  NameOf <- MCNameOf
  Attrs <- MCAttrs
  Checkbox <- MCCheckbox
  Served <- MCServed
  Custom <- MCCustom
PROPERTIES
  ParseEnables
